---- MODULE Spec2Model ----
(***************************************************************************)
(* Model of the sesame-api list / place / collaborator layer and of its     *)
(* user layer: app/crud/crud_list.py, app/crud/crud_place.py,               *)
(* app/crud/crud_user.py, the permission dependencies of app/api/deps.py    *)
(* and the endpoints of app/api/endpoints/lists.py, collaborators.py and    *)
(* users.py.                                                                *)
(*                                                                          *)
(* The store is autocommit (deps.get_db hands out a pooled connection and   *)
(* opens no transaction), so every SQL statement is one atomic step and     *)
(* requests interleave between statements.                                  *)
(***************************************************************************)
EXTENDS Integers, FiniteSets, Sequences, TLC

(* ------------------------------ bounds --------------------------------- *)
MaxLists  == 2
MaxPlaces == 2
MaxTime   == 1
MaxNotifications == 2

(* ------------------------------ domains -------------------------------- *)
NULL   == 0
NONE   == "NULL"
Emails == {"e1", "e2", "e3"}
Tokens == {"f1", "f2"}
TokenUids == {"f1", "f2", "f3"}
Usernames == {"bob", "Bob", "al"}
Names  == {"a", "b"}
ExtRefs == {"X1", "X2"}
NoteVals == {"n1"}
Procs  == {"p1", "p2"}
SeqProcs == {"p1"}

ListIds  == 1..MaxLists
PlaceIds == 1..MaxPlaces
UserIds  == 1..Cardinality(Emails)

VARIABLES
    users,              \* table users: rows [id, email, firebase_uid, username,
                        \*   profile_is_public, lists_are_public, allow_analytics]
                        \*   (boolean columns hold "t", "f" or NULL)
    user_follows,       \* table user_follows: rows [follower_id, followed_id, n]
    lists,              \* table lists: rows [id, owner_id, name, description,
                        \*   is_private, created_at, updated_at]
    list_collaborators, \* table list_collaborators: rows [list_id, user_id, n]
    places,             \* table places: rows [id, list_id, place_id, notes,
                        \*   rating, created_at, updated_at]
    notifications,      \* table notifications: rows [id, user_id, timestamp]
    now,                \* the store's clock, read by now() / NOW()
    user_seq,           \* last value of the users.id sequence
    list_seq,           \* last value of the lists.id sequence
    place_seq,          \* last value of the places.id sequence
    pc,                 \* per request: the statement it executes next
    req,                \* per request: operation and inputs
    loc,                \* per request: local variables of handler and CRUD call
    out                 \* per request: check outcome, CRUD outcome, HTTP status

db   == <<users, user_follows, lists, list_collaborators, places,
         notifications, now, user_seq, list_seq, place_seq>>
vars == <<users, user_follows, lists, list_collaborators, places,
          notifications, now, user_seq, list_seq, place_seq, pc, req, loc, out>>

(* ------------------------------ queries -------------------------------- *)
\* SELECT * FROM users WHERE firebase_uid = $1
get_user_by_firebase_uid(uid) == {u \in users : u.firebase_uid = uid}

\* SELECT id FROM users WHERE email = $1
UserIdByEmail(email) ==
    IF \E u \in users : u.email = email
    THEN (CHOOSE u \in users : u.email = email).id
    ELSE NULL

\* SELECT ... FROM lists WHERE id = $1
get_list_by_id(list_id) == {l \in lists : l.id = list_id}

\* SELECT owner_id FROM lists WHERE id = $1   (NULL when there is no row)
OwnerOf(list_id) ==
    IF \E l \in lists : l.id = list_id
    THEN (CHOOSE l \in lists : l.id = list_id).owner_id
    ELSE NULL

\* rows of list_collaborators for a (list, user) pair
CollabRows(list_id, user_id) ==
    {c \in list_collaborators : c.list_id = list_id /\ c.user_id = user_id}

\* rows of places for a (list, external reference) pair
PlaceRows(list_id, place_id) ==
    {p \in places : p.list_id = list_id /\ p.place_id = place_id}

EmptyReq == [op |-> "none", uid |-> NONE, list_id |-> NULL, pid |-> NULL,
             target |-> NULL, email |-> NONE, ext |-> NONE, fields |-> {},
             name |-> NONE, is_private |-> FALSE, notes |-> NONE,
             username |-> NONE, description |-> NONE, rating |-> NONE,
             q |-> NONE, page |-> 0, page_size |-> 0, role |-> NONE,
             scheme |-> NONE, token |-> NONE, profile_is_public |-> NONE,
             lists_are_public |-> NONE, allow_analytics |-> NONE]
EmptyLoc == [user |-> NULL, target |-> NULL, owner |-> NULL, existing |-> NONE]
EmptyOut == [check |-> "none", crud |-> "none", status |-> 0,
             id |-> NULL, needs |-> FALSE, rec |-> NONE, collabs |-> {},
             items |-> <<>>, total |-> 0, pages |-> 0, is_owner |-> FALSE]

Init ==
    /\ users = {[id |-> 1, email |-> "e1", firebase_uid |-> "f1", username |-> NONE,
                 profile_is_public |-> "t", lists_are_public |-> "t",
                 allow_analytics |-> "t"],
                [id |-> 2, email |-> "e2", firebase_uid |-> "f2", username |-> NONE,
                 profile_is_public |-> "t", lists_are_public |-> "t",
                 allow_analytics |-> "t"]}
    /\ user_follows = {}
    /\ lists = {}
    /\ list_collaborators = {}
    /\ places = {}
    /\ notifications = {}
    /\ now = 0
    /\ user_seq = 2
    /\ list_seq = 0
    /\ place_seq = 0
    /\ pc  = [p \in Procs |-> "idle"]
    /\ req = [p \in Procs |-> EmptyReq]
    /\ loc = [p \in Procs |-> EmptyLoc]
    /\ out = [p \in Procs |-> EmptyOut]

(* --------------------------- request plumbing -------------------------- *)
Goto(p, label) == pc' = [pc EXCEPT ![p] = label]

\* the request ends with an HTTP status
Reply(p, code) ==
    /\ pc' = [pc EXCEPT ![p] = "done"]
    /\ out' = [out EXCEPT ![p].status = code]

\* first statement of the endpoint body, after its permission dependency
BodyOf(op) ==
    CASE op = "create_list"         -> "create_ins"
      [] op = "get_list_detail"     -> "detail"
      [] op = "update_list"         -> "upd_list"
      [] op = "delete_list"         -> "del_list"
      [] op = "add_place"           -> "add_place"
      [] op = "update_place"        -> "upd_place"
      [] op = "delete_place"        -> "del_place"
      [] op = "add_collaborator"    -> "ac_sel_user"
      [] op = "remove_collaborator" -> "rc_sel_owner"
      [] op = "set_username"        -> "su_check"
      [] op = "follow"              -> "fl_self"
      [] op = "unfollow"            -> "uf_delete"
      [] op = "delete_user"         -> "del_user"
      [] op = "invite_member"       -> "invite_body"
      [] op = "update_settings"     -> "upd_settings"
      [] op = "read_user"           -> "read_user"
      [] op \in {"own_lists", "public_lists", "recent_lists", "search_lists",
                 "list_places", "following", "notifications"} -> "ls_count"

\* update_list / delete_list declared with the access dependency
DepOf_access(op) ==
    CASE op = "create_list"         -> BodyOf(op)
      [] op = "get_list_detail"     -> "acc_q1"
      [] op = "update_list"         -> "acc_q1"
      [] op = "delete_list"         -> "acc_q1"
      [] op = "add_place"           -> "gvo_get"
      [] op = "update_place"        -> "acc_q1"
      [] op = "delete_place"        -> "acc_q1"
      [] op = "add_collaborator"    -> "gvo_get"
      [] op = "remove_collaborator" -> "own_q1"
      [] op = "invite_member"       -> "gvo_get"
      [] op \in {"set_username", "follow", "unfollow", "delete_user",
                 "update_settings", "read_user"} -> BodyOf(op)
      [] op \in {"own_lists", "recent_lists", "following", "notifications"} -> BodyOf(op)
      [] op = "list_places"         -> "acc_q1"

\* the permission dependency each endpoint declares
DepOf(op) ==
    CASE op = "create_list"         -> BodyOf(op)
      [] op = "get_list_detail"     -> "acc_q1"
      [] op = "update_list"         -> "own_q1"
      [] op = "delete_list"         -> "own_q1"
      [] op = "add_place"           -> "gvo_get"
      [] op = "update_place"        -> "acc_q1"
      [] op = "delete_place"        -> "acc_q1"
      [] op = "add_collaborator"    -> "gvo_get"
      [] op = "remove_collaborator" -> "own_q1"
      [] op = "invite_member"       -> "gvo_get"
      [] op \in {"set_username", "follow", "unfollow", "delete_user",
                 "update_settings", "read_user"} -> BodyOf(op)
      [] op \in {"own_lists", "recent_lists", "following", "notifications"} -> BodyOf(op)
      [] op = "list_places"         -> "acc_q1"

\* the requests clients send
BaseReq(op) == [EmptyReq EXCEPT !.op = op]

ListReqs ==
    {[BaseReq("create_list") EXCEPT !.uid = t, !.name = "a"] : t \in Tokens}
    \cup {[BaseReq(o) EXCEPT !.uid = t, !.list_id = l] :
             o \in {"get_list_detail", "delete_list"}, t \in Tokens, l \in ListIds}
    \cup {[BaseReq("update_list") EXCEPT !.uid = t, !.list_id = l, !.fields = f,
                                         !.name = IF "name" \in f THEN "b" ELSE NONE] :
             t \in Tokens, l \in ListIds, f \in {{}, {"name"}}}

CollabReqs ==
    {[BaseReq("add_collaborator") EXCEPT !.uid = t, !.list_id = l, !.email = e] :
             t \in Tokens, l \in ListIds, e \in Emails}
    \cup {[BaseReq("remove_collaborator") EXCEPT !.uid = t, !.list_id = l, !.target = u] :
             t \in Tokens, l \in ListIds, u \in UserIds}

PlaceReqs ==
    {[BaseReq("add_place") EXCEPT !.uid = t, !.list_id = l, !.ext = x] :
             t \in Tokens, l \in ListIds, x \in ExtRefs}
    \cup {[BaseReq("update_place") EXCEPT !.uid = t, !.list_id = l, !.pid = i,
                                          !.fields = f[1], !.notes = f[2]] :
             t \in Tokens, l \in ListIds, i \in PlaceIds,
             f \in {<<{}, NONE>>, <<{"notes"}, NONE>>} \cup
                   {<<{"notes"}, n>> : n \in NoteVals}}
    \cup {[BaseReq("delete_place") EXCEPT !.uid = t, !.list_id = l, !.pid = i] :
             t \in Tokens, l \in ListIds, i \in PlaceIds}

UserReqs ==
    {[BaseReq("check_username") EXCEPT !.uid = t, !.email = e] :
             t \in TokenUids, e \in Emails \cup {NONE}}
    \cup {[BaseReq("set_username") EXCEPT !.uid = t, !.username = n] :
             t \in Tokens, n \in Usernames}

FollowReqs ==
    {[BaseReq(o) EXCEPT !.uid = t, !.target = u] :
             o \in {"follow", "unfollow"}, t \in Tokens, u \in UserIds}

\* first step of a request: check-username depends on the verified token
\* only, public-lists on no caller, search-lists on the optional caller, every
\* other endpoint on get_current_user_id; GET on a list's collaborators
\* matches no route
EntryOf(op) ==
    CASE op = "check_username" -> "goc_by_uid"
      [] op = "public_lists"   -> "ls_count"
      [] op = "search_lists"   -> "opt_user"
      [] op = "get_members"    -> "no_route"
      [] OTHER                 -> "auth"

\* a client sends one of the requests R
Start(p, R) ==
    /\ pc[p] = "idle"
    /\ \E r \in R : /\ req' = [req EXCEPT ![p] = r]
                    /\ pc' = [pc EXCEPT ![p] = EntryOf(r.op)]
    /\ loc' = [loc EXCEPT ![p] = EmptyLoc]
    /\ out' = [out EXCEPT ![p] = EmptyOut]
    /\ UNCHANGED db

\* the response has been delivered; the worker is free again
Finish(p) ==
    /\ pc[p] = "done"
    /\ pc' = [pc EXCEPT ![p] = "idle"]
    /\ req' = [req EXCEPT ![p] = EmptyReq]
    /\ loc' = [loc EXCEPT ![p] = EmptyLoc]
    /\ out' = [out EXCEPT ![p] = EmptyOut]
    /\ UNCHANGED db

\* a current-user dependency that creates the row it does not find
Auth_autocreate(p) ==
    /\ pc[p] = "auth"
    /\ IF get_user_by_firebase_uid(req[p].uid) = {}
       THEN /\ users' = users \cup {[id |-> user_seq + 1, email |-> NONE,
                                     firebase_uid |-> req[p].uid, username |-> NONE,
                                     profile_is_public |-> "t", lists_are_public |-> "t",
                                     allow_analytics |-> "t"]}
            /\ user_seq' = user_seq + 1
            /\ loc' = [loc EXCEPT ![p].user = user_seq + 1]
       ELSE /\ loc' = [loc EXCEPT ![p].user =
                         (CHOOSE u \in get_user_by_firebase_uid(req[p].uid) : TRUE).id]
            /\ UNCHANGED <<users, user_seq>>
    /\ Goto(p, DepOf(req[p].op))
    /\ UNCHANGED <<user_follows, lists, list_collaborators, places, notifications,
                   now, list_seq, place_seq, req, out>>

\* deps.get_current_user_record / get_current_user_id
Auth(p) ==
    /\ pc[p] = "auth"
    /\ IF get_user_by_firebase_uid(req[p].uid) = {}
       THEN Reply(p, 403) /\ UNCHANGED loc
       ELSE /\ loc' = [loc EXCEPT ![p].user =
                         (CHOOSE u \in get_user_by_firebase_uid(req[p].uid) : TRUE).id]
            /\ Goto(p, DepOf(req[p].op))
            /\ UNCHANGED out
    /\ UNCHANGED <<db, req>>

\* time passes at the store: now() returns a later value
Tick ==
    /\ now < MaxTime
    /\ now' = now + 1
    /\ UNCHANGED <<users, user_follows, lists, list_collaborators, places,
                   notifications, user_seq, list_seq, place_seq, pc, req, loc, out>>

(* ------------------------------- tokens --------------------------------- *)
\* Authorization headers "<scheme> <token>": the text after the first space
\* is a bare identifier, an ID token the identity provider issued for f1, or
\* a token of that shape the provider rejects
HeaderSchemes == {"Bearer", "Basic"}
HeaderTokens  == {"f1", "hdr.f1.sig", "hdr.f1.bad"}

\* "." in token
HasDot(token) == token \in {"hdr.f1.sig", "hdr.f1.bad"}

\* scheme.lower()
LowerScheme(scheme) == IF scheme = "Bearer" THEN "bearer" ELSE "basic"

\* firebase_auth.verify_id_token: the uid claim of a token the provider
\* issued, NONE when verification raises
firebase_verify_token(token) == IF token = "hdr.f1.sig" THEN "f1" ELSE NONE

\* a request arrives with its Authorization header, or with none
StartRaw(p, R) ==
    /\ pc[p] = "idle"
    /\ \E r \in R : /\ req' = [req EXCEPT ![p] = r]
                    /\ pc' = [pc EXCEPT ![p] = "token"]
    /\ loc' = [loc EXCEPT ![p] = EmptyLoc]
    /\ out' = [out EXCEPT ![p] = EmptyOut]
    /\ UNCHANGED db

\* deps.get_verified_token_data: 401 without header; a token without a dot is
\* taken as the uid before the scheme is looked at; then the scheme must be
\* bearer and the provider must verify the token
get_verified_token_data(p) ==
    /\ pc[p] = "token"
    /\ IF req[p].scheme = NONE
       THEN Reply(p, 401) /\ UNCHANGED req
       ELSE IF ~HasDot(req[p].token)
       THEN /\ req' = [req EXCEPT ![p].uid = req[p].token]
            /\ Goto(p, EntryOf(req[p].op)) /\ UNCHANGED out
       ELSE IF LowerScheme(req[p].scheme) # "bearer"
       THEN Reply(p, 401) /\ UNCHANGED req
       ELSE IF firebase_verify_token(req[p].token) = NONE
       THEN Reply(p, 401) /\ UNCHANGED req
       ELSE /\ req' = [req EXCEPT ![p].uid = firebase_verify_token(req[p].token)]
            /\ Goto(p, EntryOf(req[p].op)) /\ UNCHANGED out
    /\ UNCHANGED <<db, loc>>

(* ------------------------- permission checks --------------------------- *)
\* the ownership query without its owner_id condition
OwnerMatch_any(list_id, user_id) ==
    \E l \in lists : l.id = list_id

\* crud_list.check_list_ownership, first query:
\* SELECT EXISTS (SELECT 1 FROM lists WHERE id = $1 AND owner_id = $2)
OwnerMatch(list_id, user_id) ==
    \E l \in lists : l.id = list_id /\ l.owner_id = user_id

\* the access query without its join on list_collaborators
AccessMatch_owner_only(list_id, user_id) ==
    \E l \in lists : l.id = list_id /\ l.owner_id = user_id

\* the access query without its WHERE condition on owner / collaborator
AccessMatch_any(list_id, user_id) ==
    \E l \in lists : l.id = list_id

\* crud_list.check_list_access, first query: lists LEFT JOIN list_collaborators
AccessMatch(list_id, user_id) ==
    \E l \in lists :
        /\ l.id = list_id
        /\ (l.owner_id = user_id \/ CollabRows(list_id, user_id) # {})

\* SELECT EXISTS (SELECT 1 FROM lists WHERE id = $1)
ListExists(list_id) == \E l \in lists : l.id = list_id

\* check_list_ownership, query 1 (deps.verify_list_ownership)
OwnQ1(p) ==
    /\ pc[p] = "own_q1"
    /\ IF OwnerMatch(req[p].list_id, loc[p].user)
       THEN /\ out' = [out EXCEPT ![p].check = "ok"]
            /\ Goto(p, BodyOf(req[p].op))
       ELSE /\ Goto(p, "own_q2")
            /\ UNCHANGED out
    /\ UNCHANGED <<db, req, loc>>

\* check_list_ownership, query 2: tell NotFound from Forbidden
OwnQ2(p) ==
    /\ pc[p] = "own_q2"
    /\ IF ListExists(req[p].list_id)
       THEN out' = [out EXCEPT ![p].check = "Forbidden", ![p].status = 403]
       ELSE out' = [out EXCEPT ![p].check = "NotFound", ![p].status = 404]
    /\ Goto(p, "done")
    /\ UNCHANGED <<db, req, loc>>

\* check_list_access, query 1 (deps.get_list_and_verify_access)
AccQ1(p) ==
    /\ pc[p] = "acc_q1"
    /\ IF AccessMatch(req[p].list_id, loc[p].user)
       THEN /\ out' = [out EXCEPT ![p].check = "ok"]
            /\ Goto(p, "acc_get")
       ELSE /\ Goto(p, "acc_q2")
            /\ UNCHANGED out
    /\ UNCHANGED <<db, req, loc>>

\* check_list_access, query 2: tell NotFound from Forbidden
AccQ2(p) ==
    /\ pc[p] = "acc_q2"
    /\ IF ListExists(req[p].list_id)
       THEN out' = [out EXCEPT ![p].check = "Forbidden", ![p].status = 403]
       ELSE out' = [out EXCEPT ![p].check = "NotFound", ![p].status = 404]
    /\ Goto(p, "done")
    /\ UNCHANGED <<db, req, loc>>

\* get_list_and_verify_access: re-read of the list row after the check
AccGet(p) ==
    /\ pc[p] = "acc_get"
    /\ IF get_list_by_id(req[p].list_id) = {}
       THEN Reply(p, 404)
       ELSE Goto(p, BodyOf(req[p].op)) /\ UNCHANGED out
    /\ UNCHANGED <<db, req, loc>>

\* deps.get_list_and_verify_ownership: one read, then owner_id comparison
get_list_and_verify_ownership(p) ==
    /\ pc[p] = "gvo_get"
    /\ IF get_list_by_id(req[p].list_id) = {}
       THEN out' = [out EXCEPT ![p].check = "NotFound", ![p].status = 404]
            /\ Goto(p, "done")
       ELSE IF OwnerOf(req[p].list_id) # loc[p].user
            THEN out' = [out EXCEPT ![p].check = "Forbidden", ![p].status = 403]
                 /\ Goto(p, "done")
            ELSE out' = [out EXCEPT ![p].check = "ok"]
                 /\ Goto(p, BodyOf(req[p].op))
    /\ UNCHANGED <<db, req, loc>>

(* ------------------------------- lists ---------------------------------- *)
\* crud_list.create_list: INSERT INTO lists ... RETURNING id; a violation of
\* the foreign key on owner_id leaves the call as DatabaseInteractionError
create_list(p) ==
    /\ pc[p] = "create_ins"
    /\ IF \E u \in users : u.id = loc[p].user
       THEN /\ list_seq < MaxLists
            /\ list_seq' = list_seq + 1
            /\ lists' = lists \cup
                   {[id |-> list_seq + 1, owner_id |-> loc[p].user,
                     name |-> req[p].name, description |-> req[p].description,
                     is_private |-> req[p].is_private,
                     created_at |-> now, updated_at |-> now]}
            /\ req' = [req EXCEPT ![p].list_id = list_seq + 1]
            /\ out' = [out EXCEPT ![p].crud = "ok"]
            /\ Goto(p, "detail")
       ELSE /\ out' = [out EXCEPT ![p].crud = "DatabaseInteractionError",
                                  ![p].status = 500]
            /\ Goto(p, "done")
            /\ UNCHANGED <<lists, list_seq, req>>
    /\ UNCHANGED <<notifications, now, user_follows, users, list_collaborators, places, user_seq, place_seq, loc>>

\* the columns SELECT id, name, description, is_private / RETURNING hand back
ListRecordOf(l) ==
    [id |-> l.id, name |-> l.name, description |-> l.description,
     is_private |-> l.is_private]

\* the record of the stored row with this id
ListRecord(list_id) == ListRecordOf(CHOOSE l \in lists : l.id = list_id)

\* SELECT u.email FROM list_collaborators lc JOIN users u ... WHERE lc.list_id = $1
CollaboratorEmails(list_id) ==
    {u.email : u \in {v \in users : CollabRows(list_id, v.id) # {}}}

\* crud_list.get_list_details, list row (create_list and get_list_detail
\* endpoints).  A missing row raises HTTPException inside the endpoint's try
\* block, whose first except clause names ListDBError / ListNotFoundError,
\* neither imported by lists.py: the NameError is answered 500.
get_list_details(p) ==
    /\ pc[p] = "detail"
    /\ IF get_list_by_id(req[p].list_id) = {}
       THEN Reply(p, 500)
       ELSE /\ Goto(p, "collab_emails")
            /\ out' = [out EXCEPT ![p].rec = ListRecord(req[p].list_id)]
    /\ UNCHANGED <<db, req, loc>>

\* list_helpers._compute_is_owner: the record's owner_id compared with the
\* requester when the record has that column, True when it has not
compute_is_owner(data, requester_id) ==
    IF "owner_id" \in DOMAIN data THEN requester_id = data.owner_id ELSE TRUE

\* crud_list._get_collaborator_emails, then build_list_detail
get_collaborator_emails(p) ==
    /\ pc[p] = "collab_emails"
    /\ pc' = [pc EXCEPT ![p] = "done"]
    /\ out' = [out EXCEPT ![p].collabs = CollaboratorEmails(req[p].list_id),
                          ![p].is_owner = compute_is_owner(out[p].rec, loc[p].user),
                          ![p].status = IF req[p].op = "create_list" THEN 201 ELSE 200]
    /\ UNCHANGED <<db, req, loc>>

\* an UPDATE that writes both updatable columns, supplied or not
UpdatedList_all(l, r) ==
    [l EXCEPT !.name = r.name, !.is_private = r.is_private, !.updated_at = now]

\* the row an UPDATE lists SET ... produces from l
UpdatedList(l, r) ==
    [l EXCEPT !.name = IF "name" \in r.fields THEN r.name ELSE @,
              !.is_private = IF "isPrivate" \in r.fields THEN r.is_private ELSE @,
              !.updated_at = now]

\* update_list without its echo branch
EmptyPartial_never(r) == FALSE

\* update_list: fields = model_dump(exclude_unset=True); if not fields
EmptyPartial(r) == r.fields = {}

\* crud_list.update_list: echo for an empty partial, else UPDATE ... RETURNING
update_list(p) ==
    /\ pc[p] = "upd_list"
    /\ IF EmptyPartial(req[p])
       THEN /\ UNCHANGED lists
            /\ IF get_list_by_id(req[p].list_id) = {}
               THEN Reply(p, 500)
               ELSE /\ Goto(p, "collab_emails")
                    /\ out' = [out EXCEPT ![p].crud = "ok",
                                          ![p].rec = ListRecord(req[p].list_id)]
       ELSE /\ lists' = {IF l.id = req[p].list_id THEN UpdatedList(l, req[p]) ELSE l
                          : l \in lists}
            /\ IF get_list_by_id(req[p].list_id) = {}
               THEN Reply(p, 500)
               ELSE /\ Goto(p, "collab_emails")
                    /\ out' = [out EXCEPT ![p].crud = "ok",
                                          ![p].rec = ListRecordOf(
                                              CHOOSE l \in lists' : l.id = req[p].list_id)]
    /\ UNCHANGED <<notifications, now, user_follows, users, list_collaborators, places, user_seq, list_seq, place_seq,
                   req, loc>>

\* places.list_id references lists ON DELETE CASCADE
PlacesAfterListDelete(list_id) == {x \in places : x.list_id # list_id}

\* list_collaborators.list_id references lists ON DELETE CASCADE
CollaboratorsAfterListDelete(list_id) ==
    {c \in list_collaborators : c.list_id # list_id}

\* a DELETE on a lists table whose foreign keys do not cascade
delete_list_keep_rows(p) ==
    /\ pc[p] = "del_list"
    /\ lists' = {l \in lists : l.id # req[p].list_id}
    /\ pc' = [pc EXCEPT ![p] = "done"]
    /\ IF ListExists(req[p].list_id)
       THEN out' = [out EXCEPT ![p].crud = "true", ![p].status = 204]
       ELSE out' = [out EXCEPT ![p].crud = "false", ![p].status = 500]
    /\ UNCHANGED <<notifications, now, user_follows, users, places, list_collaborators,
                   user_seq, list_seq, place_seq, req, loc>>

\* crud_list.delete_list: DELETE FROM lists WHERE id = $1, cascading to the
\* places and list_collaborators rows of the list
delete_list(p) ==
    /\ pc[p] = "del_list"
    /\ lists' = {l \in lists : l.id # req[p].list_id}
    /\ places' = IF ListExists(req[p].list_id)
                 THEN PlacesAfterListDelete(req[p].list_id) ELSE places
    /\ list_collaborators' =
           IF ListExists(req[p].list_id)
           THEN CollaboratorsAfterListDelete(req[p].list_id)
           ELSE list_collaborators
    /\ IF ListExists(req[p].list_id)
       THEN /\ pc' = [pc EXCEPT ![p] = "done"]
            /\ out' = [out EXCEPT ![p].crud = "true", ![p].status = 204]
       ELSE /\ pc' = [pc EXCEPT ![p] = "done"]
            /\ out' = [out EXCEPT ![p].crud = "false", ![p].status = 500]
    /\ UNCHANGED <<notifications, now, user_follows, users, user_seq, list_seq, place_seq, req, loc>>

(* ------------------------------- places --------------------------------- *)
\* places without the unique constraint
PlaceUniqueViolation_none(list_id, place_id) == FALSE

\* the unique constraint places_list_id_place_id_key rejects the row
PlaceUniqueViolation(list_id, place_id) == PlaceRows(list_id, place_id) # {}

\* crud_place.add_place_to_list: one INSERT ... RETURNING.  The foreign key
\* on list_id and any other fault end in DatabaseInteractionError, the unique
\* violation on (list_id, place_id) in PlaceAlreadyExistsError.
add_place_to_list(p) ==
    /\ pc[p] = "add_place"
    /\ IF ~ListExists(req[p].list_id)
       THEN /\ out' = [out EXCEPT ![p].crud = "DatabaseInteractionError",
                                  ![p].status = 500]
            /\ UNCHANGED <<places, place_seq>>
       ELSE IF PlaceUniqueViolation(req[p].list_id, req[p].ext)
            THEN /\ out' = [out EXCEPT ![p].crud = "PlaceAlreadyExistsError",
                                       ![p].status = 409]
                 /\ UNCHANGED <<places, place_seq>>
            ELSE /\ place_seq < MaxPlaces
                 /\ place_seq' = place_seq + 1
                 /\ places' = places \cup
                        {[id |-> place_seq + 1, list_id |-> req[p].list_id,
                          place_id |-> req[p].ext, notes |-> req[p].notes,
                          rating |-> req[p].rating,
                          created_at |-> now, updated_at |-> now]}
                 /\ out' = [out EXCEPT ![p].crud = "ok", ![p].status = 201]
    /\ Goto(p, "done")
    /\ UNCHANGED <<notifications, now, user_follows, users, lists, list_collaborators, user_seq, list_seq, req, loc>>

\* the WHERE clause without its list_id condition
PlaceInList_any_list(place_id, list_id) ==
    {x \in places : x.id = place_id}

\* rows matched by WHERE id = $1 AND list_id = $2
PlaceInList(place_id, list_id) ==
    {x \in places : x.id = place_id /\ x.list_id = list_id}

\* the columns SELECT / RETURNING hand back for a place
PlaceRecord(x) == [id |-> x.id, rating |-> x.rating, notes |-> x.notes]

\* an UPDATE that writes every updatable column, supplied or not
UpdatedPlace_all(x, r) ==
    [x EXCEPT !.notes = r.notes, !.rating = r.rating, !.updated_at = now]

\* the row UPDATE places SET <supplied columns>, updated_at = NOW() produces:
\* PlaceUpdate declares notes only
UpdatedPlace(x, r) ==
    [x EXCEPT !.notes = IF "notes" \in r.fields THEN r.notes ELSE @,
              !.updated_at = now]

\* update_place: if not any(v is not None for v in update_fields.values())
NoValueSupplied(r) == ~(\E f \in r.fields : r[f] # NONE)

\* crud_place.update_place: read-only when no supplied value is non-null,
\* else UPDATE ... WHERE id AND list_id RETURNING
update_place(p) ==
    /\ pc[p] = "upd_place"
    /\ IF PlaceInList(req[p].pid, req[p].list_id) = {}
       THEN /\ out' = [out EXCEPT ![p].crud = "PlaceNotFoundError", ![p].status = 404]
            /\ UNCHANGED places
       ELSE /\ IF NoValueSupplied(req[p])
               THEN UNCHANGED places
               ELSE places' = {IF x \in PlaceInList(req[p].pid, req[p].list_id)
                               THEN UpdatedPlace(x, req[p]) ELSE x
                                : x \in places}
            /\ out' = [out EXCEPT ![p].crud = "ok", ![p].status = 200,
                           ![p].rec = PlaceRecord(
                               CHOOSE x \in places' : x.id = req[p].pid)]
    /\ Goto(p, "done")
    /\ UNCHANGED <<notifications, now, user_follows, users, lists, list_collaborators, user_seq, list_seq, place_seq,
                   req, loc>>

\* crud_place.delete_place_from_list: DELETE ... WHERE id AND list_id
delete_place_from_list(p) ==
    /\ pc[p] = "del_place"
    /\ places' = places \ PlaceInList(req[p].pid, req[p].list_id)
    /\ IF PlaceInList(req[p].pid, req[p].list_id) # {}
       THEN out' = [out EXCEPT ![p].crud = "true", ![p].status = 204]
       ELSE out' = [out EXCEPT ![p].crud = "false", ![p].status = 404]
    /\ Goto(p, "done")
    /\ UNCHANGED <<notifications, now, user_follows, users, lists, list_collaborators, user_seq, list_seq, place_seq,
                   req, loc>>

(* ---------------------------- collaborators ----------------------------- *)
\* add_collaborator_to_list, step 1: SELECT id FROM users WHERE email = $1
ac_select_user(p) ==
    /\ pc[p] = "ac_sel_user"
    /\ loc' = [loc EXCEPT ![p].target = UserIdByEmail(req[p].email)]
    /\ Goto(p, IF UserIdByEmail(req[p].email) = NULL
               THEN "ac_ins_user" ELSE "ac_sel_owner")
    /\ UNCHANGED <<db, req, out>>

\* step 1b: INSERT INTO users (email) ... ON CONFLICT (email) DO UPDATE
\* RETURNING id: a placeholder user, or the row a concurrent call inserted
ac_insert_user(p) ==
    /\ pc[p] = "ac_ins_user"
    /\ IF UserIdByEmail(req[p].email) # NULL
       THEN /\ loc' = [loc EXCEPT ![p].target = UserIdByEmail(req[p].email)]
            /\ UNCHANGED <<users, user_seq>>
       ELSE /\ users' = users \cup {[id |-> user_seq + 1, email |-> req[p].email,
                                     firebase_uid |-> NONE, username |-> NONE,
                                     profile_is_public |-> "t", lists_are_public |-> "t",
                                     allow_analytics |-> "t"]}
            /\ user_seq' = user_seq + 1
            /\ loc' = [loc EXCEPT ![p].target = user_seq + 1]
    /\ Goto(p, "ac_sel_owner")
    /\ UNCHANGED <<notifications, now, user_follows, lists, list_collaborators, places, list_seq, place_seq, req, out>>

\* add_collaborator_to_list without its owner test
OwnerIsTarget_never(owner_id, user_id) == FALSE

\* add_collaborator_to_list: if owner_id == user_id
OwnerIsTarget(owner_id, user_id) == owner_id = user_id

\* step 2: SELECT owner_id FROM lists; the owner is refused
ac_select_owner(p) ==
    /\ pc[p] = "ac_sel_owner"
    /\ loc' = [loc EXCEPT ![p].owner = OwnerOf(req[p].list_id)]
    /\ IF OwnerIsTarget(OwnerOf(req[p].list_id), loc[p].target)
       THEN /\ out' = [out EXCEPT ![p].crud = "CollaboratorAlreadyExistsError",
                                  ![p].status = 409]
            /\ Goto(p, "done")
       ELSE /\ Goto(p, "ac_exists")
            /\ UNCHANGED out
    /\ UNCHANGED <<db, req>>

\* add_collaborator_to_list without its fail-fast membership test
AlreadyCollaborator_never(list_id, user_id) == FALSE

\* SELECT EXISTS (SELECT 1 FROM list_collaborators WHERE list_id AND user_id)
AlreadyCollaborator(list_id, user_id) == CollabRows(list_id, user_id) # {}

\* step 3: fail fast if already collaborator
ac_exists(p) ==
    /\ pc[p] = "ac_exists"
    /\ IF AlreadyCollaborator(req[p].list_id, loc[p].target)
       THEN /\ out' = [out EXCEPT ![p].crud = "CollaboratorAlreadyExistsError",
                                  ![p].status = 409]
            /\ Goto(p, "done")
       ELSE /\ Goto(p, "ac_insert")
            /\ UNCHANGED out
    /\ UNCHANGED <<db, req, loc>>

\* the unique constraint on list_collaborators (list_id, user_id) rejects the row
CollabUniqueViolation(list_id, user_id) == CollabRows(list_id, user_id) # {}

\* step 4: INSERT INTO list_collaborators.  A constraint violation (foreign
\* key or uniqueness) is caught by "except Exception" and leaves the call as
\* DatabaseInteractionError.
ac_insert(p) ==
    /\ pc[p] = "ac_insert"
    /\ IF \/ ~ListExists(req[p].list_id)
          \/ ~(\E u \in users : u.id = loc[p].target)
          \/ CollabUniqueViolation(req[p].list_id, loc[p].target)
       THEN /\ out' = [out EXCEPT ![p].crud = "DatabaseInteractionError",
                                  ![p].status = 500]
            /\ UNCHANGED list_collaborators
       ELSE /\ list_collaborators' = list_collaborators \cup
                  {[list_id |-> req[p].list_id, user_id |-> loc[p].target,
                    n |-> Cardinality(CollabRows(req[p].list_id, loc[p].target)) + 1]}
            /\ out' = [out EXCEPT ![p].crud = "ok", ![p].status = 201]
    /\ Goto(p, "done")
    /\ UNCHANGED <<notifications, now, user_follows, users, lists, places, user_seq, list_seq, place_seq, req, loc>>

\* delete_collaborator_from_list, owner protection:
\* SELECT owner_id FROM lists WHERE id = $1
rc_select_owner(p) ==
    /\ pc[p] = "rc_sel_owner"
    /\ loc' = [loc EXCEPT ![p].owner = OwnerOf(req[p].list_id)]
    /\ IF OwnerOf(req[p].list_id) = req[p].target
       THEN /\ out' = [out EXCEPT ![p].crud = "false"]
            /\ Goto(p, "rc_get_list")
       ELSE /\ Goto(p, "rc_delete")
            /\ UNCHANGED out
    /\ UNCHANGED <<db, req>>

\* the DELETE without its list_id condition
RemoveRows_any_list(list_id, user_id) ==
    {c \in list_collaborators : c.user_id = user_id}

\* rows matched by WHERE list_id = $1 AND user_id = $2
RemoveRows(list_id, user_id) == CollabRows(list_id, user_id)

\* DELETE FROM list_collaborators WHERE list_id = $1 AND user_id = $2
rc_delete(p) ==
    /\ pc[p] = "rc_delete"
    /\ list_collaborators' =
           list_collaborators \ RemoveRows(req[p].list_id, req[p].target)
    /\ IF RemoveRows(req[p].list_id, req[p].target) # {}
       THEN /\ out' = [out EXCEPT ![p].crud = "true", ![p].status = 204]
            /\ Goto(p, "done")
       ELSE /\ out' = [out EXCEPT ![p].crud = "false"]
            /\ Goto(p, "rc_get_list")
    /\ UNCHANGED <<notifications, now, user_follows, users, lists, places, user_seq, list_seq, place_seq, req, loc>>

\* remove_collaborator endpoint, nothing removed: was the target the owner?
rc_get_list(p) ==
    /\ pc[p] = "rc_get_list"
    /\ IF OwnerOf(req[p].list_id) = req[p].target
       THEN Reply(p, 400)
       ELSE Goto(p, "rc_user_exists") /\ UNCHANGED out
    /\ UNCHANGED <<db, req, loc>>

\* crud_user.check_user_exists: both answers are 404
rc_user_exists(p) ==
    /\ pc[p] = "rc_user_exists"
    /\ Reply(p, 404)
    /\ UNCHANGED <<db, req, loc>>

\* Invitation by user id: POST /lists/{id}/collaborators with the body
\* {"user_id", "role"}.  main.py mounts the router of collaborators.py, whose
\* payload CollaboratorAdd requires "email": after the ownership dependency
\* the body is refused with 422 and add_collaborator is not entered.
invite_member(p) ==
    /\ pc[p] = "invite_body"
    /\ Reply(p, 422)
    /\ UNCHANGED <<db, req, loc>>

\* GET /lists/{id}/collaborators: the mounted routers declare POST on this
\* path and DELETE below it (list_members.py is not mounted), so the request
\* is answered 405 before any dependency runs
get_members(p) ==
    /\ pc[p] = "no_route"
    /\ Reply(p, 405)
    /\ UNCHANGED <<db, req, loc>>

(* -------------------------------- users --------------------------------- *)
\* the lookup by email restricted to users that have an identity
get_user_by_email_bound(email) ==
    {u \in users : u.email = email /\ u.firebase_uid # NONE}

\* SELECT id, email, username, firebase_uid FROM users WHERE email = $1
get_user_by_email(email) == {u \in users : u.email = email}

\* SELECT ... FROM users WHERE id = $1
get_user_by_id(user_id) == {u \in users : u.id = user_id}

\* SELECT EXISTS (SELECT 1 FROM users WHERE id = $1)
check_user_exists(user_id) == \E u \in users : u.id = user_id

\* needs_username computed as if every user lacked a username
NeedsUsername_always(user_id) == TRUE

\* needs_username = full_record['username'] is None if full_record else True
NeedsUsername(user_id) ==
    IF get_user_by_id(user_id) = {} THEN TRUE
    ELSE (CHOOSE u \in get_user_by_id(user_id) : TRUE).username = NONE

\* a users table without its unique index on email
EmailUniqueViolation_none(email) == FALSE

\* the unique index on users.email rejects the row
EmailUniqueViolation(email) == \E u \in users : u.email = email

\* the unique index on users.firebase_uid rejects the value for user_id
FirebaseUidUniqueViolation(uid, user_id) ==
    \E u \in users : u.firebase_uid = uid /\ u.id # user_id

\* get_or_create_user_by_firebase runs inside db.transaction() at the
\* default isolation level: every statement reads the committed state, and
\* its only write is its last statement, committed with it.
\* Token validation, then step 1: lookup by firebase_uid
goc_by_uid(p) ==
    /\ pc[p] = "goc_by_uid"
    /\ IF req[p].email = NONE
       THEN /\ out' = [out EXCEPT ![p].crud = "ValueError", ![p].status = 400]
            /\ Goto(p, "done")
            /\ UNCHANGED loc
       ELSE IF get_user_by_firebase_uid(req[p].uid) # {}
            THEN /\ loc' = [loc EXCEPT ![p].target =
                      (CHOOSE u \in get_user_by_firebase_uid(req[p].uid) : TRUE).id]
                 /\ Goto(p, "goc_full_uid")
                 /\ UNCHANGED out
            ELSE /\ Goto(p, "goc_by_email")
                 /\ UNCHANGED <<loc, out>>
    /\ UNCHANGED <<db, req>>

\* step 1, found: get_user_by_id, return (user_id, needs_username)
goc_full_uid(p) ==
    /\ pc[p] = "goc_full_uid"
    /\ out' = [out EXCEPT ![p].crud = "ok", ![p].status = 200,
                          ![p].id = loc[p].target,
                          ![p].needs = NeedsUsername(loc[p].target)]
    /\ Goto(p, "done")
    /\ UNCHANGED <<db, req, loc>>

\* step 2: lookup by email
goc_by_email(p) ==
    /\ pc[p] = "goc_by_email"
    /\ IF get_user_by_email(req[p].email) # {}
       THEN /\ loc' = [loc EXCEPT
                  ![p].target = (CHOOSE u \in get_user_by_email(req[p].email) : TRUE).id,
                  ![p].existing =
                      (CHOOSE u \in get_user_by_email(req[p].email) : TRUE).firebase_uid]
            /\ Goto(p, "goc_full_email")
       ELSE /\ Goto(p, "goc_create")
            /\ UNCHANGED loc
    /\ UNCHANGED <<db, req, out>>

\* the rebinding test without the comparison: never update
UidDiffers_never(existing_firebase_uid, firebase_uid) == FALSE

\* if existing_firebase_uid != firebase_uid
UidDiffers(existing_firebase_uid, firebase_uid) == existing_firebase_uid # firebase_uid

\* step 2, found: get_user_by_id, then update the uid if it differs
goc_full_email(p) ==
    /\ pc[p] = "goc_full_email"
    /\ IF UidDiffers(loc[p].existing, req[p].uid)
       THEN /\ out' = [out EXCEPT ![p].id = loc[p].target,
                                  ![p].needs = NeedsUsername(loc[p].target)]
            /\ Goto(p, "goc_update_uid")
       ELSE /\ out' = [out EXCEPT ![p].crud = "ok", ![p].status = 200,
                                  ![p].id = loc[p].target,
                                  ![p].needs = NeedsUsername(loc[p].target)]
            /\ Goto(p, "done")
    /\ UNCHANGED <<db, req, loc>>

\* update_user_firebase_uid: UPDATE users SET firebase_uid = $1 WHERE id = $2;
\* any fault is DatabaseInteractionError
update_user_firebase_uid(p) ==
    /\ pc[p] = "goc_update_uid"
    /\ IF FirebaseUidUniqueViolation(req[p].uid, loc[p].target)
       THEN /\ out' = [out EXCEPT ![p].crud = "DatabaseInteractionError",
                                  ![p].status = 500]
            /\ UNCHANGED users
       ELSE /\ users' = {IF u.id = loc[p].target
                         THEN [u EXCEPT !.firebase_uid = req[p].uid] ELSE u : u \in users}
            /\ out' = [out EXCEPT ![p].crud = "ok", ![p].status = 200]
    /\ Goto(p, "done")
    /\ UNCHANGED <<notifications, now, user_follows, lists, list_collaborators, places,
                   user_seq, list_seq, place_seq, req, loc>>

\* step 3: create_user, INSERT INTO users ... RETURNING id.  A unique
\* violation leaves create_user as UsernameAlreadyExistsError, which
\* get_or_create_user_by_firebase re-raises and the check-username endpoint
\* answers from its "except Exception" clause.
create_user(p) ==
    /\ pc[p] = "goc_create"
    /\ IF \/ EmailUniqueViolation(req[p].email)
          \/ FirebaseUidUniqueViolation(req[p].uid, NULL)
       THEN /\ out' = [out EXCEPT ![p].crud = "UsernameAlreadyExistsError",
                                  ![p].status = 500]
            /\ UNCHANGED <<users, user_seq>>
       ELSE /\ users' = users \cup {[id |-> user_seq + 1, email |-> req[p].email,
                                     firebase_uid |-> req[p].uid, username |-> NONE,
                                     profile_is_public |-> "t", lists_are_public |-> "t",
                                     allow_analytics |-> "t"]}
            /\ user_seq' = user_seq + 1
            /\ out' = [out EXCEPT ![p].crud = "ok", ![p].status = 200,
                                  ![p].id = user_seq + 1, ![p].needs = TRUE]
    /\ Goto(p, "done")
    /\ UNCHANGED <<notifications, now, user_follows, lists, list_collaborators, places,
                   list_seq, place_seq, req, loc>>

\* LOWER() on the usernames of the model
Lower(name) == IF name = "Bob" THEN "bob" ELSE name

\* SELECT id FROM users WHERE LOWER(username) = LOWER($1) AND id != $2
UsernameTaken(username, user_id) ==
    \E u \in users : /\ u.username # NONE
                     /\ Lower(u.username) = Lower(username)
                     /\ u.id # user_id

\* the unique index on users.username (case-insensitive) rejects the value
UsernameUniqueViolation(username, user_id) ==
    \E u \in users : /\ u.username # NONE
                     /\ Lower(u.username) = Lower(username)
                     /\ u.id # user_id

\* set_user_username: check for uniqueness
su_check(p) ==
    /\ pc[p] = "su_check"
    /\ IF UsernameTaken(req[p].username, loc[p].user)
       THEN /\ out' = [out EXCEPT ![p].crud = "UsernameAlreadyExistsError",
                                  ![p].status = 409]
            /\ Goto(p, "done")
       ELSE /\ Goto(p, "su_update")
            /\ UNCHANGED out
    /\ UNCHANGED <<db, req, loc>>

\* set_user_username with the UniqueViolationError left to "except Exception"
SetUsernameViolation_db == "DatabaseInteractionError"

\* except asyncpg.exceptions.UniqueViolationError: raise UsernameAlreadyExistsError
SetUsernameViolation == "UsernameAlreadyExistsError"

\* the set-username endpoint's status for an error of set_user_username
SetUsernameStatus(err) ==
    CASE err = "UsernameAlreadyExistsError" -> 409
      [] err = "UserNotFoundError"          -> 404
      [] OTHER                              -> 500

\* set_user_username: UPDATE users SET username = $1 WHERE id = $2
su_update(p) ==
    /\ pc[p] = "su_update"
    /\ IF UsernameUniqueViolation(req[p].username, loc[p].user)
       THEN /\ out' = [out EXCEPT ![p].crud = SetUsernameViolation,
                                  ![p].status = SetUsernameStatus(SetUsernameViolation)]
            /\ UNCHANGED users
       ELSE IF ~check_user_exists(loc[p].user)
            THEN /\ out' = [out EXCEPT ![p].crud = "UserNotFoundError",
                                       ![p].status = SetUsernameStatus("UserNotFoundError")]
                 /\ UNCHANGED users
            ELSE /\ users' = {IF u.id = loc[p].user
                              THEN [u EXCEPT !.username = req[p].username] ELSE u
                               : u \in users}
                 /\ out' = [out EXCEPT ![p].crud = "ok", ![p].status = 200]
    /\ Goto(p, "done")
    /\ UNCHANGED <<notifications, now, user_follows, lists, list_collaborators, places,
                   user_seq, list_seq, place_seq, req, loc>>

\* the three privacy columns of users
PrivacyFlags == {"profile_is_public", "lists_are_public", "allow_analytics"}

\* SELECT profile_is_public, lists_are_public, allow_analytics of a users row
SettingsRecord(u) ==
    [profile_is_public |-> u.profile_is_public,
     lists_are_public  |-> u.lists_are_public,
     allow_analytics   |-> u.allow_analytics]

\* not any(v is not None for v in update_fields.values())
NoSettingSupplied(r) == \A f \in r.fields : r[f] = NONE

\* a NOT NULL constraint on a privacy column rejects the value; the store
\* requirements name unique, cascade and check constraints only
FlagNotNullViolation(value) == FALSE

\* the row UPDATE users SET <every key of update_fields> produces: a key
\* supplied as null is written as NULL
ApplySettings(u, r) ==
    [u EXCEPT !.profile_is_public =
                  IF "profile_is_public" \in r.fields THEN r.profile_is_public ELSE @,
              !.lists_are_public =
                  IF "lists_are_public" \in r.fields THEN r.lists_are_public ELSE @,
              !.allow_analytics =
                  IF "allow_analytics" \in r.fields THEN r.allow_analytics ELSE @]

\* PrivacySettingsResponse declares three bool fields: a null fails response
\* validation and the request ends with 500
SettingsResponseStatus(rec) ==
    IF \E f \in PrivacyFlags : rec[f] = NONE THEN 500 ELSE 200

\* PATCH /users/me/settings: crud_user.update_privacy_settings.  Each path
\* runs one statement that decides the outcome (the check_user_exists after
\* an UPDATE that matched no row reads the same missing row).
update_privacy_settings(p) ==
    /\ pc[p] = "upd_settings"
    /\ LET r    == req[p]
           rows == get_user_by_id(loc[p].user)
       IN  IF rows = {}
           THEN /\ out' = [out EXCEPT ![p].crud = "UserNotFoundError",
                                      ![p].status = 404]
                /\ UNCHANGED users
           ELSE LET u == CHOOSE x \in rows : TRUE
                IN  IF NoSettingSupplied(r)
                    THEN /\ out' = [out EXCEPT
                                      ![p].crud = "ok",
                                      ![p].rec = SettingsRecord(u),
                                      ![p].status =
                                          SettingsResponseStatus(SettingsRecord(u))]
                         /\ UNCHANGED users
                    ELSE IF \E f \in r.fields : FlagNotNullViolation(r[f])
                    THEN /\ out' = [out EXCEPT
                                      ![p].crud = "DatabaseInteractionError",
                                      ![p].status = 500]
                         /\ UNCHANGED users
                    ELSE /\ users' = (users \ {u}) \cup {ApplySettings(u, r)}
                         /\ out' = [out EXCEPT
                                      ![p].crud = "ok",
                                      ![p].rec = SettingsRecord(ApplySettings(u, r)),
                                      ![p].status = SettingsResponseStatus(
                                          SettingsRecord(ApplySettings(u, r)))]
    /\ Goto(p, "done")
    /\ UNCHANGED <<user_follows, lists, list_collaborators, places, notifications,
                   now, user_seq, list_seq, place_seq, req, loc>>

\* a privacy check that hides no profile
ProfileHidden_never(flag, requester_id, user_id) == FALSE

\* not profile_is_public and requester_id != user_id
ProfileHidden(flag, requester_id, user_id) ==
    flag # "t" /\ requester_id # user_id

\* GET /users/{user_id}: crud_user.get_user_by_id, then the privacy check
read_user_by_id(p) ==
    /\ pc[p] = "read_user"
    /\ LET rows == get_user_by_id(req[p].target)
       IN  IF rows = {}
           THEN Reply(p, 404)
           ELSE LET u == CHOOSE x \in rows : TRUE
                IN  IF ProfileHidden(u.profile_is_public, loc[p].user, req[p].target)
                    THEN Reply(p, 403)
                    ELSE /\ out' = [out EXCEPT ![p].rec = u, ![p].status = 200]
                         /\ Goto(p, "done")
    /\ UNCHANGED <<db, req, loc>>

(* ------------------------------- follows -------------------------------- *)
\* rows of user_follows for a (follower, followed) pair
FollowRows(follower_id, followed_id) ==
    {f \in user_follows : f.follower_id = follower_id /\ f.followed_id = followed_id}

\* the follow endpoint without its self-follow guard
SelfFollow_never(current_user_id, user_id) == FALSE

\* follow endpoint: if current_user_id == user_id
SelfFollow(current_user_id, user_id) == current_user_id = user_id

\* follow endpoint, first statement of the body: self-follow is answered 400
\* before crud_user.follow_user is called
fl_self(p) ==
    /\ pc[p] = "fl_self"
    /\ IF SelfFollow(loc[p].user, req[p].target)
       THEN Reply(p, 400)
       ELSE Goto(p, "fl_exists") /\ UNCHANGED out
    /\ UNCHANGED <<db, req, loc>>

\* follow_user with the target taken to exist
TargetMissing_never(user_id) == FALSE

\* follow_user: if not await check_user_exists(db, followed_id)
TargetMissing(user_id) == ~check_user_exists(user_id)

\* follow_user: check if target user exists first
fl_exists(p) ==
    /\ pc[p] = "fl_exists"
    /\ IF TargetMissing(req[p].target)
       THEN /\ out' = [out EXCEPT ![p].crud = "UserNotFoundError", ![p].status = 404]
            /\ Goto(p, "done")
       ELSE /\ Goto(p, "fl_insert")
            /\ UNCHANGED out
    /\ UNCHANGED <<db, req, loc>>

\* the INSERT without its ON CONFLICT clause taking effect
FollowConflict_none(follower_id, followed_id) == FALSE

\* ON CONFLICT (follower_id, followed_id) DO NOTHING applies
FollowConflict(follower_id, followed_id) == FollowRows(follower_id, followed_id) # {}

\* follow_user: INSERT INTO user_follows ... ON CONFLICT DO NOTHING RETURNING
\* created_at; crud is the returned "already following" flag.  A foreign key
\* fault ends in DatabaseInteractionError.
fl_insert(p) ==
    /\ pc[p] = "fl_insert"
    /\ IF ~check_user_exists(loc[p].user) \/ ~check_user_exists(req[p].target)
       THEN /\ out' = [out EXCEPT ![p].crud = "DatabaseInteractionError",
                                  ![p].status = 500]
            /\ UNCHANGED user_follows
       ELSE IF FollowConflict(loc[p].user, req[p].target)
       THEN /\ out' = [out EXCEPT ![p].crud = "true", ![p].status = 200]
            /\ UNCHANGED user_follows
       ELSE /\ user_follows' = user_follows \cup
                  {[follower_id |-> loc[p].user, followed_id |-> req[p].target,
                    n |-> Cardinality(FollowRows(loc[p].user, req[p].target)) + 1]}
            /\ out' = [out EXCEPT ![p].crud = "false", ![p].status = 201]
    /\ Goto(p, "done")
    /\ UNCHANGED <<notifications, now, users, lists, list_collaborators, places,
                   user_seq, list_seq, place_seq, req, loc>>

\* the DELETE without its followed_id condition
UnfollowRows_any_target(follower_id, followed_id) ==
    {f \in user_follows : f.follower_id = follower_id}

\* DELETE FROM user_follows WHERE follower_id = $1 AND followed_id = $2
UnfollowRows(follower_id, followed_id) == FollowRows(follower_id, followed_id)

\* unfollow_user: the DELETE and its row count
uf_delete(p) ==
    /\ pc[p] = "uf_delete"
    /\ user_follows' = user_follows \ UnfollowRows(loc[p].user, req[p].target)
    /\ IF UnfollowRows(loc[p].user, req[p].target) # {}
       THEN /\ out' = [out EXCEPT ![p].crud = "true", ![p].status = 200]
            /\ Goto(p, "done")
       ELSE /\ out' = [out EXCEPT ![p].crud = "false"]
            /\ Goto(p, "uf_exists")
    /\ UNCHANGED <<notifications, now, users, lists, list_collaborators, places,
                   user_seq, list_seq, place_seq, req, loc>>

\* unfollow endpoint, nothing deleted: 404 when the target has no user row,
\* else 200 "Not following this user"
uf_exists(p) ==
    /\ pc[p] = "uf_exists"
    /\ Reply(p, IF check_user_exists(req[p].target) THEN 200 ELSE 404)
    /\ UNCHANGED <<db, req, loc>>

(* ------------------------------ accounts -------------------------------- *)
\* the next value of the notifications.id sequence
NextNotificationId ==
    IF notifications = {} THEN 1
    ELSE 1 + (CHOOSE m \in {n.id : n \in notifications} :
                 \A n \in notifications : n.id <= m)

\* a notification is produced for a stored user (the producers are outside
\* crud_user; the row carries the time of its creation)
Notify ==
    /\ Cardinality(notifications) < MaxNotifications
    /\ \E u \in users :
          notifications' = notifications \cup
              {[id |-> NextNotificationId, user_id |-> u.id, timestamp |-> now]}
    /\ UNCHANGED <<users, user_follows, lists, list_collaborators, places, now,
                   user_seq, list_seq, place_seq, pc, req, loc, out>>

\* lists.owner_id references users ON DELETE CASCADE
ListsAfterUserDelete(user_id) == {l \in lists : l.owner_id # user_id}

\* places.list_id references lists ON DELETE CASCADE, applied to the lists a
\* user's deletion removes
PlacesAfterUserDelete(user_id) ==
    {x \in places : \E l \in ListsAfterUserDelete(user_id) : l.id = x.list_id}

\* list_collaborators.user_id references users and list_collaborators.list_id
\* references lists, both ON DELETE CASCADE
CollaboratorsAfterUserDelete(user_id) ==
    {c \in list_collaborators :
        /\ c.user_id # user_id
        /\ \E l \in ListsAfterUserDelete(user_id) : l.id = c.list_id}

\* user_follows.follower_id / followed_id reference users ON DELETE CASCADE
FollowsAfterUserDelete(user_id) ==
    {f \in user_follows : f.follower_id # user_id /\ f.followed_id # user_id}

\* notifications.user_id references users ON DELETE CASCADE
NotificationsAfterUserDelete(user_id) ==
    {n \in notifications : n.user_id # user_id}

\* a DELETE on a users table whose foreign keys do not cascade
delete_user_account_keep_rows(p) ==
    /\ pc[p] = "del_user"
    /\ users' = {u \in users : u.id # loc[p].user}
    /\ IF check_user_exists(loc[p].user)
       THEN out' = [out EXCEPT ![p].crud = "true", ![p].status = 204]
       ELSE out' = [out EXCEPT ![p].crud = "false", ![p].status = 500]
    /\ Goto(p, "done")
    /\ UNCHANGED <<lists, places, list_collaborators, user_follows, notifications,
                   now, user_seq, list_seq, place_seq, req, loc>>

\* crud_user.delete_user_account: DELETE FROM users WHERE id = $1, True when
\* a row was deleted.  delete_user_me raises its 404 for False inside its own
\* try block, where "except Exception" turns it into 500.
delete_user_account(p) ==
    /\ pc[p] = "del_user"
    /\ users' = {u \in users : u.id # loc[p].user}
    /\ IF check_user_exists(loc[p].user)
       THEN /\ lists' = ListsAfterUserDelete(loc[p].user)
            /\ places' = PlacesAfterUserDelete(loc[p].user)
            /\ list_collaborators' = CollaboratorsAfterUserDelete(loc[p].user)
            /\ user_follows' = FollowsAfterUserDelete(loc[p].user)
            /\ notifications' = NotificationsAfterUserDelete(loc[p].user)
            /\ out' = [out EXCEPT ![p].crud = "true", ![p].status = 204]
       ELSE /\ UNCHANGED <<lists, places, list_collaborators, user_follows,
                           notifications>>
            /\ out' = [out EXCEPT ![p].crud = "false", ![p].status = 500]
    /\ Goto(p, "done")
    /\ UNCHANGED <<now, user_seq, list_seq, place_seq, req, loc>>

(* ------------------------------ listings -------------------------------- *)
\* the characters of the strings the listings search in and for
Chars(s) ==
    CASE s = "Ab" -> <<"A", "b">>
      [] s = "c"  -> <<"c">>
      [] s = "cb" -> <<"c", "b">>
      [] s = "B"  -> <<"B">>
      [] s = "_"  -> <<"_">>
      [] s = "a"  -> <<"a">>
      [] s = "b"  -> <<"b">>

\* str.lower() / LOWER() on one character
LowerChar(c) == CASE c = "A" -> "a" [] c = "B" -> "b" [] OTHER -> c

\* str.lower() / LOWER() on a string
LowerSeq(t) == [i \in 1..Len(t) |-> LowerChar(t[i])]

\* SQL LIKE: % matches any run of characters, _ any one character
RECURSIVE LikeMatch(_, _)
LikeMatch(pat, txt) ==
    IF pat = <<>> THEN txt = <<>>
    ELSE IF Head(pat) = "%"
         THEN \/ LikeMatch(Tail(pat), txt)
              \/ (txt # <<>> /\ LikeMatch(pat, Tail(txt)))
    ELSE IF txt = <<>> THEN FALSE
    ELSE /\ (Head(pat) = "_" \/ Head(pat) = Head(txt))
         /\ LikeMatch(Tail(pat), Tail(txt))

\* search_lists_paginated: q_like = f"%{query.lower()}%"
QLike(q) == <<"%">> \o LowerSeq(Chars(q)) \o <<"%">>

\* LOWER(column) LIKE $1; NULL for a NULL column, which WHERE treats as false
LowerLike(column, q) ==
    column # NONE /\ LikeMatch(QLike(q), LowerSeq(Chars(column)))

\* (LOWER(l.name) LIKE $1 OR LOWER(l.description) LIKE $1)
SearchMatch(l, q) == LowerLike(l.name, q) \/ LowerLike(l.description, q)

\* l.is_private = FALSE for an anonymous caller, else
\* (l.is_private = FALSE OR l.owner_id = $2)
VisibleTo(l, user_id) ==
    IF user_id = NULL THEN ~l.is_private
    ELSE ~l.is_private \/ l.owner_id = user_id

ListListings == {"own_lists", "public_lists", "recent_lists", "search_lists"}
Listings == ListListings \cup {"list_places", "following", "notifications"}

\* the rows the WHERE clause of a listing selects
ResultRows(r, user_id) ==
    CASE r.op = "own_lists"     -> {l \in lists : l.owner_id = user_id}
      [] r.op = "public_lists"  -> {l \in lists : ~l.is_private}
      [] r.op = "recent_lists"  -> {l \in lists : ~l.is_private \/ l.owner_id = user_id}
      [] r.op = "search_lists"  -> {l \in lists : SearchMatch(l, r.q) /\ VisibleTo(l, user_id)}
      [] r.op = "list_places"   -> {x \in places : x.list_id = r.list_id}
      [] r.op = "following"     ->
            {u \in users : \E f \in user_follows :
                              f.follower_id = user_id /\ f.followed_id = u.id}
      [] r.op = "notifications" -> {n \in notifications : n.user_id = user_id}

\* ORDER BY created_at DESC alone
CreatedBefore_no_tiebreak(a, b) == a.created_at > b.created_at

\* ORDER BY created_at DESC, id DESC: a sorts strictly before b
CreatedBefore(a, b) ==
    \/ a.created_at > b.created_at
    \/ a.created_at = b.created_at /\ a.id > b.id

\* the collation order of the usernames of the model
UsernameLess(x, y) == x = "al" /\ y \in {"bob", "Bob"}

\* ORDER BY u.username ASC NULLS LAST, u.display_name ASC NULLS LAST (no user
\* of the model has a display name)
FollowingBefore(a, b) ==
    /\ a.username # NONE
    /\ (b.username = NONE \/ UsernameLess(a.username, b.username))

\* ORDER BY timestamp DESC
NotificationBefore(a, b) == a.timestamp > b.timestamp

\* the ORDER BY of each listing
RowBefore(op, a, b) ==
    CASE op \in ListListings \cup {"list_places"} -> CreatedBefore(a, b)
      [] op = "following"     -> FollowingBefore(a, b)
      [] op = "notifications" -> NotificationBefore(a, b)

\* the sequences a sort of S by ORDER BY may produce: rows the sort keys do
\* not tell apart come in any order
Orderings(S, op) ==
    {s \in [1..Cardinality(S) -> S] :
        /\ \A i, j \in 1..Cardinality(S) : i < j => s[i] # s[j]
        /\ \A i, j \in 1..Cardinality(S) : i < j => ~RowBefore(op, s[j], s[i])}

\* LIMIT page_size OFFSET (page - 1) * page_size
PageOf(s, page, page_size) ==
    LET offset == (page - 1) * page_size
        last   == IF offset + page_size < Len(s) THEN offset + page_size ELSE Len(s)
    IN  [i \in 1..(IF last > offset THEN last - offset ELSE 0) |-> s[offset + i].id]

\* math.ceil(total_items / page_size) if page_size > 0 else 0
TotalPages(total_items, page_size) ==
    IF page_size > 0
    THEN (total_items \div page_size)
         + (IF total_items % page_size = 0 THEN 0 ELSE 1)
    ELSE 0

\* discovery.get_optional_current_user_id: no header, or a failure of
\* get_or_create_user_by_firebase (a token without e-mail raises ValueError),
\* gives an anonymous caller; a row found by firebase_uid gives its id.  A
\* token with an e-mail and no row continues in get_or_create's lookup by
\* e-mail (opt_by_email).
get_optional_current_user_id(p) ==
    /\ pc[p] = "opt_user"
    /\ IF req[p].uid = NONE \/ req[p].email = NONE
       THEN /\ loc' = [loc EXCEPT ![p].user = NULL]
            /\ Goto(p, "ls_count")
       ELSE IF get_user_by_firebase_uid(req[p].uid) # {}
            THEN /\ loc' = [loc EXCEPT ![p].user =
                      (CHOOSE u \in get_user_by_firebase_uid(req[p].uid) : TRUE).id]
                 /\ Goto(p, "ls_count")
            ELSE /\ Goto(p, "opt_by_email")
                 /\ UNCHANGED loc
    /\ UNCHANGED <<db, req, out>>

\* an UPDATE users SET firebase_uid without its WHERE clause
RebindRows_all(user_id, firebase_uid) ==
    {[u EXCEPT !.firebase_uid = firebase_uid] : u \in users}

\* the users table after UPDATE users SET firebase_uid = $1 WHERE id = $2
RebindRows(user_id, firebase_uid) ==
    {IF u.id = user_id THEN [u EXCEPT !.firebase_uid = firebase_uid] ELSE u : u \in users}

\* get_or_create_user_by_firebase under the search dependency, step 2: the
\* lookup by e-mail.  A row with the token's uid is returned as it is; one
\* with another uid is rebound; no row leads to create_user.
opt_by_email(p) ==
    /\ pc[p] = "opt_by_email"
    /\ LET rows == get_user_by_email(req[p].email)
       IN  IF rows = {}
           THEN Goto(p, "opt_create") /\ UNCHANGED loc
           ELSE LET u == CHOOSE x \in rows : TRUE
                IN  IF UidDiffers(u.firebase_uid, req[p].uid)
                    THEN /\ loc' = [loc EXCEPT ![p].target = u.id,
                                               ![p].existing = u.firebase_uid]
                         /\ Goto(p, "opt_update_uid")
                    ELSE /\ loc' = [loc EXCEPT ![p].user = u.id]
                         /\ Goto(p, "ls_count")
    /\ UNCHANGED <<db, req, out>>

\* update_user_firebase_uid under the search dependency: its error makes the
\* caller anonymous, its success gives the rebound user's id
opt_update_uid(p) ==
    /\ pc[p] = "opt_update_uid"
    /\ IF FirebaseUidUniqueViolation(req[p].uid, loc[p].target)
       THEN /\ loc' = [loc EXCEPT ![p].user = NULL]
            /\ UNCHANGED users
       ELSE /\ users' = RebindRows(loc[p].target, req[p].uid)
            /\ loc' = [loc EXCEPT ![p].user = loc[p].target]
    /\ Goto(p, "ls_count")
    /\ UNCHANGED <<notifications, now, user_follows, lists, list_collaborators, places,
                   user_seq, list_seq, place_seq, req, out>>

\* create_user under the search dependency: its error makes the caller
\* anonymous, its success gives the new user's id
opt_create(p) ==
    /\ pc[p] = "opt_create"
    /\ IF \/ EmailUniqueViolation(req[p].email)
          \/ FirebaseUidUniqueViolation(req[p].uid, NULL)
       THEN /\ loc' = [loc EXCEPT ![p].user = NULL]
            /\ UNCHANGED <<users, user_seq>>
       ELSE /\ users' = users \cup {[id |-> user_seq + 1, email |-> req[p].email,
                                     firebase_uid |-> req[p].uid, username |-> NONE,
                                     profile_is_public |-> "t", lists_are_public |-> "t",
                                     allow_analytics |-> "t"]}
            /\ user_seq' = user_seq + 1
            /\ loc' = [loc EXCEPT ![p].user = user_seq + 1]
    /\ Goto(p, "ls_count")
    /\ UNCHANGED <<notifications, now, user_follows, lists, list_collaborators, places,
                   list_seq, place_seq, req, out>>

\* the COUNT(*) statement of a paginated listing; a total of 0 returns [], 0
ls_count(p) ==
    /\ pc[p] = "ls_count"
    /\ LET total == Cardinality(ResultRows(req[p], loc[p].user))
       IN  IF total = 0
           THEN /\ pc' = [pc EXCEPT ![p] = "done"]
                /\ out' = [out EXCEPT ![p].crud = "ok", ![p].status = 200,
                              ![p].items = <<>>, ![p].total = 0,
                              ![p].pages = TotalPages(0, req[p].page_size)]
           ELSE /\ pc' = [pc EXCEPT ![p] = "ls_fetch"]
                /\ out' = [out EXCEPT ![p].total = total]
    /\ UNCHANGED <<db, req, loc>>

\* the SELECT ... ORDER BY ... LIMIT ... OFFSET statement, and the endpoint's
\* total_pages
ls_fetch(p) ==
    /\ pc[p] = "ls_fetch"
    /\ \E s \in Orderings(ResultRows(req[p], loc[p].user), req[p].op) :
          out' = [out EXCEPT ![p].crud = "ok", ![p].status = 200,
                     ![p].items = PageOf(s, req[p].page, req[p].page_size),
                     ![p].pages = TotalPages(out[p].total, req[p].page_size)]
    /\ pc' = [pc EXCEPT ![p] = "done"]
    /\ UNCHANGED <<db, req, loc>>

(* ---------------------------- specifications ---------------------------- *)
\* Spec: list membership, requests served one at a time
SpecReqs ==
    {r \in ListReqs : r.op \in {"create_list", "get_list_detail", "delete_list"}}
    \cup CollabReqs

Next ==
    \E p \in SeqProcs :
        \/ Start(p, SpecReqs)
        \/ Finish(p) \/ Auth(p)
        \/ OwnQ1(p) \/ OwnQ2(p) \/ AccQ1(p) \/ AccQ2(p) \/ AccGet(p)
        \/ get_list_and_verify_ownership(p)
        \/ create_list(p) \/ get_list_details(p) \/ get_collaborator_emails(p)
        \/ delete_list(p)
        \/ ac_select_user(p) \/ ac_insert_user(p) \/ ac_select_owner(p)
        \/ ac_exists(p) \/ ac_insert(p)
        \/ rc_select_owner(p) \/ rc_delete(p) \/ rc_get_list(p) \/ rc_user_exists(p)

Spec == Init /\ [][Next]_vars

\* SpecLists: list update and delete over lists that have places and
\* collaborators, requests served one at a time
ListsReqs ==
    ListReqs
    \cup {r \in CollabReqs : r.op = "add_collaborator" /\ r.email \in {"e1", "e2"}}
    \cup {r \in PlaceReqs : r.op = "add_place" /\ r.ext = "X1"}

NextLists ==
    \E p \in SeqProcs :
        \/ Start(p, ListsReqs)
        \/ Finish(p) \/ Auth(p)
        \/ OwnQ1(p) \/ OwnQ2(p) \/ AccQ1(p) \/ AccQ2(p) \/ AccGet(p)
        \/ get_list_and_verify_ownership(p)
        \/ create_list(p) \/ get_list_details(p) \/ get_collaborator_emails(p)
        \/ update_list(p) \/ delete_list(p)
        \/ add_place_to_list(p)
        \/ ac_select_user(p) \/ ac_select_owner(p) \/ ac_exists(p) \/ ac_insert(p)

SpecLists == Init /\ [][NextLists]_vars

\* SpecPlaces: places of shared lists, requests served one at a time
PlacesReqs ==
    {r \in ListReqs : r.op \in {"create_list", "delete_list"} /\ r.uid = "f1"}
    \cup {r \in CollabReqs : /\ r.uid = "f1"
                              /\ (r.op = "add_collaborator" => r.email = "e2")
                              /\ (r.op = "remove_collaborator" => r.target = 2)}
    \cup {r \in PlaceReqs : r.op = "add_place" => r.ext = "X1"}

NextPlaces ==
    \E p \in SeqProcs :
        \/ Start(p, PlacesReqs)
        \/ Finish(p) \/ Auth(p)
        \/ OwnQ1(p) \/ OwnQ2(p) \/ AccQ1(p) \/ AccQ2(p) \/ AccGet(p)
        \/ get_list_and_verify_ownership(p)
        \/ create_list(p) \/ get_list_details(p) \/ get_collaborator_emails(p)
        \/ delete_list(p)
        \/ add_place_to_list(p) \/ update_place(p) \/ delete_place_from_list(p)
        \/ ac_select_user(p) \/ ac_select_owner(p) \/ ac_exists(p) \/ ac_insert(p)
        \/ rc_select_owner(p) \/ rc_delete(p) \/ rc_get_list(p) \/ rc_user_exists(p)

SpecPlaces == Init /\ [][NextPlaces]_vars

\* SpecRace: two requests interleave statement by statement
RaceReqs ==
    {r \in ListReqs : r.op = "create_list" /\ r.uid = "f1"}
    \cup {r \in CollabReqs : r.op = "add_collaborator" /\ r.uid = "f1"
                                /\ r.email = "e3"}
    \cup {r \in PlaceReqs : r.op = "add_place" /\ r.uid = "f1" /\ r.ext = "X1"}

NextRace ==
    \E p \in Procs :
        \/ Start(p, RaceReqs)
        \/ Finish(p) \/ Auth(p)
        \/ get_list_and_verify_ownership(p)
        \/ create_list(p) \/ get_list_details(p) \/ get_collaborator_emails(p)
        \/ add_place_to_list(p)
        \/ ac_select_user(p) \/ ac_insert_user(p) \/ ac_select_owner(p)
        \/ ac_exists(p) \/ ac_insert(p)

SpecRace == Init /\ [][NextRace]_vars

\* SpecUsers: identity resolution, usernames and placeholder users, requests
\* served one at a time
UsersReqs ==
    UserReqs
    \cup {r \in ListReqs : r.op = "create_list" /\ r.uid = "f1"}
    \cup {r \in CollabReqs : r.op = "add_collaborator" /\ r.uid = "f1"
                                /\ r.email = "e3"}

NextUsers ==
    \E p \in SeqProcs :
        \/ Start(p, UsersReqs)
        \/ Finish(p) \/ Auth(p)
        \/ goc_by_uid(p) \/ goc_full_uid(p) \/ goc_by_email(p) \/ goc_full_email(p)
        \/ update_user_firebase_uid(p) \/ create_user(p)
        \/ su_check(p) \/ su_update(p)
        \/ get_list_and_verify_ownership(p)
        \/ create_list(p) \/ get_list_details(p) \/ get_collaborator_emails(p)
        \/ ac_select_user(p) \/ ac_insert_user(p) \/ ac_select_owner(p)
        \/ ac_exists(p) \/ ac_insert(p)

SpecUsers == Init /\ [][NextUsers]_vars

\* SpecFollow: the follow graph, requests served one at a time
FollowSpecReqs ==
    FollowReqs
    \cup {r \in UserReqs : r.op = "check_username" /\ r.uid = "f3" /\ r.email = "e3"}

NextFollow ==
    \E p \in SeqProcs :
        \/ Start(p, FollowSpecReqs)
        \/ Finish(p) \/ Auth(p)
        \/ goc_by_uid(p) \/ goc_full_uid(p) \/ goc_by_email(p) \/ create_user(p)
        \/ fl_self(p) \/ fl_exists(p) \/ fl_insert(p)
        \/ uf_delete(p) \/ uf_exists(p)

SpecFollow == Init /\ [][NextFollow]_vars

\* SpecUsersRace: two user-layer requests interleave statement by statement
UsersRaceReqs ==
    {r \in UserReqs : \/ r.op = "check_username" /\ r.uid = "f3" /\ r.email = "e3"
                      \/ r.op = "set_username" /\ r.username \in {"bob", "Bob"}}
    \cup {r \in FollowReqs : r.uid = "f1" /\ r.target = 2}

NextUsersRace ==
    \E p \in Procs :
        \/ Start(p, UsersRaceReqs)
        \/ Finish(p) \/ Auth(p)
        \/ goc_by_uid(p) \/ goc_full_uid(p) \/ goc_by_email(p) \/ goc_full_email(p)
        \/ create_user(p)
        \/ su_check(p) \/ su_update(p)
        \/ fl_self(p) \/ fl_exists(p) \/ fl_insert(p)
        \/ uf_delete(p) \/ uf_exists(p)

SpecUsersRace == Init /\ [][NextUsersRace]_vars

\* SpecEdit: partial updates of lists and places while the clock advances,
\* requests served one at a time
EditReqs ==
    {[BaseReq("create_list") EXCEPT !.uid = "f1", !.name = "a", !.description = "d1"]}
    \cup {[BaseReq("update_list") EXCEPT !.uid = "f1", !.list_id = 1, !.fields = f,
                                         !.name = IF "name" \in f THEN "b" ELSE NONE,
                                         !.is_private = ("isPrivate" \in f)] :
             f \in SUBSET {"name", "isPrivate"}}
    \cup {[BaseReq("add_collaborator") EXCEPT !.uid = "f1", !.list_id = 1, !.email = "e2"]}
    \cup {[BaseReq("add_place") EXCEPT !.uid = "f1", !.list_id = 1, !.ext = x,
                                       !.rating = "r1"] : x \in ExtRefs}
    \cup {[BaseReq("update_place") EXCEPT !.uid = "f1", !.list_id = 1, !.pid = 1,
                                          !.fields = f[1], !.notes = f[2]] :
             f \in {<<{}, NONE>>, <<{"notes"}, NONE>>, <<{"notes"}, "n1">>}}

NextEdit ==
    \/ Tick
    \/ \E p \in SeqProcs :
        \/ Start(p, EditReqs)
        \/ Finish(p) \/ Auth(p)
        \/ OwnQ1(p) \/ OwnQ2(p) \/ AccQ1(p) \/ AccQ2(p) \/ AccGet(p)
        \/ get_list_and_verify_ownership(p)
        \/ create_list(p) \/ get_list_details(p) \/ get_collaborator_emails(p)
        \/ update_list(p)
        \/ add_place_to_list(p) \/ update_place(p)
        \/ ac_select_user(p) \/ ac_select_owner(p) \/ ac_exists(p) \/ ac_insert(p)

SpecEdit == Init /\ [][NextEdit]_vars

\* SpecDelete: two requests on one owner's lists interleave statement by
\* statement, deletions among them
DeleteReqs ==
    {[BaseReq("create_list") EXCEPT !.uid = "f1", !.name = "a"]}
    \cup {[BaseReq(o) EXCEPT !.uid = "f1", !.list_id = 1] :
             o \in {"delete_list", "get_list_detail"}}
    \cup {[BaseReq("add_collaborator") EXCEPT !.uid = "f1", !.list_id = 1, !.email = "e2"]}
    \cup {[BaseReq("add_place") EXCEPT !.uid = "f1", !.list_id = 1, !.ext = "X1"]}

NextDelete ==
    \E p \in Procs :
        \/ Start(p, DeleteReqs)
        \/ Finish(p) \/ Auth(p)
        \/ OwnQ1(p) \/ OwnQ2(p) \/ AccQ1(p) \/ AccQ2(p) \/ AccGet(p)
        \/ get_list_and_verify_ownership(p)
        \/ create_list(p) \/ get_list_details(p) \/ get_collaborator_emails(p)
        \/ delete_list(p)
        \/ add_place_to_list(p)
        \/ ac_select_user(p) \/ ac_select_owner(p) \/ ac_exists(p) \/ ac_insert(p)

SpecDelete == Init /\ [][NextDelete]_vars

\* SpecAccount: account deletion among the requests of two users, two requests
\* interleaving statement by statement
AccountReqs ==
    {[BaseReq("create_list") EXCEPT !.uid = "f1", !.name = "a"]}
    \cup {[BaseReq("add_collaborator") EXCEPT !.uid = "f1", !.list_id = 1, !.email = "e2"]}
    \cup {[BaseReq("add_place") EXCEPT !.uid = "f1", !.list_id = 1, !.ext = "X1"]}
    \cup {[BaseReq("follow") EXCEPT !.uid = "f2", !.target = 1]}
    \cup {[BaseReq("delete_user") EXCEPT !.uid = t] : t \in Tokens}

NextAccount ==
    \/ Notify
    \/ \E p \in Procs :
        \/ Start(p, AccountReqs)
        \/ Finish(p) \/ Auth(p)
        \/ get_list_and_verify_ownership(p)
        \/ create_list(p) \/ get_list_details(p) \/ get_collaborator_emails(p)
        \/ add_place_to_list(p)
        \/ ac_select_user(p) \/ ac_insert_user(p) \/ ac_select_owner(p)
        \/ ac_exists(p) \/ ac_insert(p)
        \/ fl_self(p) \/ fl_exists(p) \/ fl_insert(p)
        \/ delete_user_account(p)

SpecAccount == Init /\ [][NextAccount]_vars

\* SpecPages: the paginated listings of lists and of the places of a list,
\* requests served one at a time while the clock advances
PageNumbers == 1..2
PageSizes   == 1..2

PagesReqs ==
    {[BaseReq("create_list") EXCEPT !.uid = "f1", !.name = "Ab", !.is_private = b] :
             b \in BOOLEAN}
    \cup {[BaseReq("create_list") EXCEPT !.uid = "f2", !.name = "c", !.description = "cb",
                                         !.is_private = b] : b \in BOOLEAN}
    \cup {[BaseReq("add_place") EXCEPT !.uid = "f1", !.list_id = 1, !.ext = x] :
             x \in ExtRefs}
    \cup {[BaseReq(o) EXCEPT !.uid = "f1", !.page = k, !.page_size = n] :
             o \in {"own_lists", "recent_lists"}, k \in PageNumbers, n \in PageSizes}
    \cup {[BaseReq("public_lists") EXCEPT !.page = k, !.page_size = n] :
             k \in PageNumbers, n \in PageSizes}
    \cup {[BaseReq("search_lists") EXCEPT !.uid = c[1], !.email = c[2], !.q = q,
                                          !.page = k, !.page_size = n] :
             c \in {<<NONE, NONE>>, <<"f1", "e1">>}, q \in {"B", "_"},
             k \in PageNumbers, n \in PageSizes}
    \cup {[BaseReq("list_places") EXCEPT !.uid = "f1", !.list_id = 1,
                                         !.page = k, !.page_size = n] :
             k \in PageNumbers, n \in PageSizes}

NextPages ==
    \/ Tick
    \/ \E p \in SeqProcs :
        \/ Start(p, PagesReqs)
        \/ Finish(p) \/ Auth(p)
        \/ AccQ1(p) \/ AccQ2(p) \/ AccGet(p)
        \/ get_list_and_verify_ownership(p)
        \/ create_list(p) \/ get_list_details(p) \/ get_collaborator_emails(p)
        \/ add_place_to_list(p)
        \/ get_optional_current_user_id(p)
        \/ ls_count(p) \/ ls_fetch(p)

SpecPages == Init /\ [][NextPages]_vars

\* SpecFeed: the listings of followed users and of notifications, two requests
\* at a time, over a follow graph and a notification table that only grow
FeedReqs ==
    {r \in UserReqs : r.op = "check_username" /\ r.uid = "f3" /\ r.email = "e3"}
    \cup {r \in FollowReqs : r.op = "follow" /\ r.uid = "f1" /\ r.target \in {2, 3}}
    \cup {[BaseReq(o) EXCEPT !.uid = "f1", !.page = k, !.page_size = n] :
             o \in {"following", "notifications"}, k \in PageNumbers, n \in PageSizes}

NextFeed ==
    \/ Notify
    \/ Tick
    \/ \E p \in Procs :
        \/ Start(p, FeedReqs)
        \/ Finish(p) \/ Auth(p)
        \/ goc_by_uid(p) \/ goc_full_uid(p) \/ goc_by_email(p) \/ create_user(p)
        \/ fl_self(p) \/ fl_exists(p) \/ fl_insert(p)
        \/ ls_count(p) \/ ls_fetch(p)

SpecFeed == Init /\ [][NextFeed]_vars

(* ---------------------------- storage faults ---------------------------- *)
\* an asyncpg exception that no manager has translated
RawStorageError == "PostgresError"

\* the positions of SpecFault's requests at which a statement is sent to the
\* store
StoragePositions ==
    {"auth", "own_q1", "own_q2", "acc_q1", "acc_q2", "acc_get", "gvo_get",
     "create_ins", "detail", "collab_emails", "upd_list", "add_place",
     "upd_place", "ls_count", "ls_fetch"}

\* what the manager raises when the statement at position k of request r
\* fails: the DatabaseInteractionError of the enclosing try / except Exception,
\* and the exception itself where the statement stands outside any try
\* (check_list_access; the SELECT of update_place's no-value branch)
RaisedOnFault(k, r) ==
    CASE k \in {"acc_q1", "acc_q2"}           -> RawStorageError
      [] k = "upd_place" /\ NoValueSupplied(r) -> RawStorageError
      [] OTHER                                 -> "DatabaseInteractionError"

\* the statement a request is about to run fails at the store; nothing is
\* written and the request is answered 500
StorageFault(p) ==
    /\ pc[p] \in StoragePositions
    /\ out' = [out EXCEPT ![p].crud = RaisedOnFault(pc[p], req[p]),
                          ![p].status = 500]
    /\ Goto(p, "done")
    /\ UNCHANGED <<db, req, loc>>

\* SpecFault: list and place requests served one at a time over a store whose
\* statements may fail
FaultReqs ==
    {[BaseReq("create_list") EXCEPT !.uid = "f1", !.name = "a"]}
    \cup {[BaseReq("update_list") EXCEPT !.uid = t, !.list_id = 1, !.fields = f,
                                         !.name = IF "name" \in f THEN "b" ELSE NONE] :
             t \in Tokens, f \in {{}, {"name"}}}
    \cup {[BaseReq("add_place") EXCEPT !.uid = "f1", !.list_id = 1, !.ext = "X1"]}
    \cup {[BaseReq("update_place") EXCEPT !.uid = t, !.list_id = 1, !.pid = 1,
                                          !.fields = f[1], !.notes = f[2]] :
             t \in Tokens, f \in {<<{}, NONE>>, <<{"notes"}, "n1">>}}
    \cup {[BaseReq("list_places") EXCEPT !.uid = "f1", !.list_id = 1,
                                         !.page = 1, !.page_size = 1]}

NextFault ==
    \E p \in SeqProcs :
        \/ Start(p, FaultReqs)
        \/ Finish(p) \/ Auth(p)
        \/ OwnQ1(p) \/ OwnQ2(p) \/ AccQ1(p) \/ AccQ2(p) \/ AccGet(p)
        \/ get_list_and_verify_ownership(p)
        \/ create_list(p) \/ get_list_details(p) \/ get_collaborator_emails(p)
        \/ update_list(p)
        \/ add_place_to_list(p) \/ update_place(p)
        \/ ls_count(p) \/ ls_fetch(p)
        \/ StorageFault(p)

SpecFault == Init /\ [][NextFault]_vars

\* SpecIdentity: identity resolutions and invitations by email interleave
\* statement by statement
IdentityReqs ==
    {r \in UserReqs : r.op = "check_username" /\ r.uid = "f3" /\ r.email \in {"e1", "e3"}}
    \cup {r \in ListReqs : r.op = "create_list" /\ r.uid = "f1"}
    \cup {r \in CollabReqs : r.op = "add_collaborator" /\ r.uid = "f1"
                                /\ r.list_id = 1 /\ r.email = "e3"}

NextIdentity ==
    \E p \in Procs :
        \/ Start(p, IdentityReqs)
        \/ Finish(p) \/ Auth(p)
        \/ goc_by_uid(p) \/ goc_full_uid(p) \/ goc_by_email(p) \/ goc_full_email(p)
        \/ update_user_firebase_uid(p) \/ create_user(p)
        \/ get_list_and_verify_ownership(p)
        \/ create_list(p) \/ get_list_details(p) \/ get_collaborator_emails(p)
        \/ ac_select_user(p) \/ ac_insert_user(p) \/ ac_select_owner(p)
        \/ ac_exists(p) \/ ac_insert(p)

SpecIdentity == Init /\ [][NextIdentity]_vars

\* SpecInvite: invitations by user id and by email, and reads by the invited
\* user, requests served one at a time
Roles == {"viewer", "editor"}

InviteReqs ==
    {[BaseReq("create_list") EXCEPT !.uid = "f1", !.name = "a", !.is_private = b] :
             b \in BOOLEAN}
    \cup {[BaseReq("invite_member") EXCEPT !.uid = t, !.list_id = l, !.target = 2,
                                           !.role = r] :
             t \in Tokens, l \in ListIds, r \in Roles}
    \cup {[BaseReq("add_collaborator") EXCEPT !.uid = "f1", !.list_id = l, !.email = "e2"] :
             l \in ListIds}
    \cup {[BaseReq(o) EXCEPT !.uid = "f2", !.list_id = l] :
             o \in {"get_members", "get_list_detail"}, l \in ListIds}

NextInvite ==
    \E p \in SeqProcs :
        \/ Start(p, InviteReqs)
        \/ Finish(p) \/ Auth(p)
        \/ AccQ1(p) \/ AccQ2(p) \/ AccGet(p)
        \/ get_list_and_verify_ownership(p)
        \/ create_list(p) \/ get_list_details(p) \/ get_collaborator_emails(p)
        \/ ac_select_user(p) \/ ac_select_owner(p) \/ ac_exists(p) \/ ac_insert(p)
        \/ invite_member(p) \/ get_members(p)

SpecInvite == Init /\ [][NextInvite]_vars

\* SpecDetail: list details as the owner and as a collaborator read them,
\* requests served one at a time
DetailReqs ==
    {[BaseReq("create_list") EXCEPT !.uid = t, !.name = "a"] : t \in Tokens}
    \cup {[BaseReq("add_collaborator") EXCEPT !.uid = t, !.list_id = l, !.email = "e2"] :
             t \in Tokens, l \in ListIds}
    \cup {[BaseReq("get_list_detail") EXCEPT !.uid = t, !.list_id = l] :
             t \in Tokens, l \in ListIds}
    \cup {[BaseReq("update_list") EXCEPT !.uid = t, !.list_id = l, !.fields = f,
                                         !.name = IF "name" \in f THEN "b" ELSE NONE] :
             t \in Tokens, l \in ListIds, f \in {{}, {"name"}}}

NextDetail ==
    \E p \in SeqProcs :
        \/ Start(p, DetailReqs)
        \/ Finish(p) \/ Auth(p)
        \/ OwnQ1(p) \/ OwnQ2(p) \/ AccQ1(p) \/ AccQ2(p) \/ AccGet(p)
        \/ get_list_and_verify_ownership(p)
        \/ create_list(p) \/ get_list_details(p) \/ get_collaborator_emails(p)
        \/ update_list(p)
        \/ ac_select_user(p) \/ ac_select_owner(p) \/ ac_exists(p) \/ ac_insert(p)

SpecDetail == Init /\ [][NextDetail]_vars

\* SpecCheckRace: permission checks of one request interleave with list
\* creation, list deletion and membership changes of another
CheckRaceReqs ==
    {[BaseReq("create_list") EXCEPT !.uid = "f1", !.name = "a"]}
    \cup {[BaseReq(o) EXCEPT !.uid = "f1", !.list_id = 1] :
             o \in {"delete_list", "get_list_detail"}}
    \cup {[BaseReq("update_list") EXCEPT !.uid = "f1", !.list_id = 1,
                                         !.fields = {"name"}, !.name = "b"]}
    \cup {[BaseReq("get_list_detail") EXCEPT !.uid = "f2", !.list_id = 1]}
    \cup {[BaseReq("add_collaborator") EXCEPT !.uid = "f1", !.list_id = 1, !.email = "e2"]}

NextCheckRace ==
    \E p \in Procs :
        \/ Start(p, CheckRaceReqs)
        \/ Finish(p) \/ Auth(p)
        \/ OwnQ1(p) \/ OwnQ2(p) \/ AccQ1(p) \/ AccQ2(p) \/ AccGet(p)
        \/ get_list_and_verify_ownership(p)
        \/ create_list(p) \/ get_list_details(p) \/ get_collaborator_emails(p)
        \/ update_list(p) \/ delete_list(p)
        \/ ac_select_user(p) \/ ac_select_owner(p) \/ ac_exists(p) \/ ac_insert(p)

SpecCheckRace == Init /\ [][NextCheckRace]_vars

\* SpecRevoke: a collaborator's place mutations interleave with the owner's
\* removal of that collaborator
RevokeReqs ==
    {[BaseReq("create_list") EXCEPT !.uid = "f1", !.name = "a"]}
    \cup {[BaseReq("add_collaborator") EXCEPT !.uid = "f1", !.list_id = 1, !.email = "e2"]}
    \cup {[BaseReq("remove_collaborator") EXCEPT !.uid = "f1", !.list_id = 1, !.target = 2]}
    \cup {[BaseReq("add_place") EXCEPT !.uid = "f1", !.list_id = 1, !.ext = "X1"]}
    \cup {[BaseReq("update_place") EXCEPT !.uid = "f2", !.list_id = 1, !.pid = 1,
                                          !.fields = {"notes"}, !.notes = "n1"]}
    \cup {[BaseReq("delete_place") EXCEPT !.uid = "f2", !.list_id = 1, !.pid = 1]}

NextRevoke ==
    \E p \in Procs :
        \/ Start(p, RevokeReqs)
        \/ Finish(p) \/ Auth(p)
        \/ OwnQ1(p) \/ OwnQ2(p) \/ AccQ1(p) \/ AccQ2(p) \/ AccGet(p)
        \/ get_list_and_verify_ownership(p)
        \/ create_list(p) \/ get_list_details(p) \/ get_collaborator_emails(p)
        \/ add_place_to_list(p) \/ update_place(p) \/ delete_place_from_list(p)
        \/ ac_select_user(p) \/ ac_select_owner(p) \/ ac_exists(p) \/ ac_insert(p)
        \/ rc_select_owner(p) \/ rc_delete(p) \/ rc_get_list(p) \/ rc_user_exists(p)

SpecRevoke == Init /\ [][NextRevoke]_vars

\* SpecAuth: list requests as they arrive, with any Authorization header or
\* none, served one at a time
AuthReqs ==
    {[r EXCEPT !.scheme = h[1], !.token = h[2]] :
        r \in {[BaseReq("create_list") EXCEPT !.name = "a"]}
              \cup {[BaseReq(o) EXCEPT !.list_id = 1] :
                       o \in {"get_list_detail", "delete_list"}}
              \cup {[BaseReq("update_list") EXCEPT !.list_id = 1, !.fields = {"name"},
                                                   !.name = "b"]},
        h \in {<<NONE, NONE>>} \cup (HeaderSchemes \X HeaderTokens)}

NextAuth ==
    \E p \in SeqProcs :
        \/ StartRaw(p, AuthReqs)
        \/ get_verified_token_data(p)
        \/ Finish(p) \/ Auth(p)
        \/ OwnQ1(p) \/ OwnQ2(p) \/ AccQ1(p) \/ AccQ2(p) \/ AccGet(p)
        \/ create_list(p) \/ get_list_details(p) \/ get_collaborator_emails(p)
        \/ update_list(p) \/ delete_list(p)

SpecAuth == Init /\ [][NextAuth]_vars

\* SpecPrivacy: privacy settings and profile reads, requests served one at a
\* time
PrivacyReqs ==
    {[BaseReq("update_settings") EXCEPT !.uid = t,
          !.fields = {f \in PrivacyFlags : v[f] # "unset"},
          !.profile_is_public = IF v.profile_is_public = "unset" THEN NONE ELSE v.profile_is_public,
          !.lists_are_public  = IF v.lists_are_public = "unset" THEN NONE ELSE v.lists_are_public,
          !.allow_analytics   = IF v.allow_analytics = "unset" THEN NONE ELSE v.allow_analytics] :
        t \in Tokens, v \in [PrivacyFlags -> {"unset", "t", "f", NONE}]}
    \cup {[BaseReq("read_user") EXCEPT !.uid = t, !.target = u] :
             t \in Tokens, u \in UserIds}

NextPrivacy ==
    \E p \in SeqProcs :
        \/ Start(p, PrivacyReqs)
        \/ Finish(p) \/ Auth(p)
        \/ update_privacy_settings(p)
        \/ read_user_by_id(p)

SpecPrivacy == Init /\ [][NextPrivacy]_vars

\* SpecDiscovery: the discovery listings by known, unknown and anonymous
\* callers, requests served one at a time
DiscoveryReqs ==
    {[BaseReq("create_list") EXCEPT !.uid = "f1", !.name = "Ab", !.is_private = b] :
             b \in BOOLEAN}
    \cup {[BaseReq("recent_lists") EXCEPT !.uid = t, !.page = 1, !.page_size = n] :
             t \in Tokens, n \in PageSizes}
    \cup {[BaseReq("public_lists") EXCEPT !.page = 1, !.page_size = n] : n \in PageSizes}
    \cup {[BaseReq("search_lists") EXCEPT !.uid = c[1], !.email = c[2], !.q = "B",
                                          !.page = 1, !.page_size = n] :
             c \in {<<NONE, NONE>>, <<"f1", "e1">>, <<"f3", NONE>>, <<"f3", "e3">>,
                    <<"f3", "e2">>},
             n \in PageSizes}

NextDiscovery ==
    \E p \in SeqProcs :
        \/ Start(p, DiscoveryReqs)
        \/ Finish(p) \/ Auth(p)
        \/ create_list(p) \/ get_list_details(p) \/ get_collaborator_emails(p)
        \/ get_optional_current_user_id(p)
        \/ opt_by_email(p) \/ opt_update_uid(p) \/ opt_create(p)
        \/ ls_count(p) \/ ls_fetch(p)

SpecDiscovery == Init /\ [][NextDiscovery]_vars

(* ------------------------------- claims --------------------------------- *)
CAE == "CollaboratorAlreadyExistsError"

\* the outcome an ownership check owes for (list, user) on the stored state
OwnershipOutcome(list_id, user_id) ==
    IF ~(\E l \in lists : l.id = list_id) THEN "NotFound"
    ELSE IF \E l \in lists : l.id = list_id /\ l.owner_id = user_id THEN "ok"
    ELSE "Forbidden"

\* the outcome an access check owes for (list, user) on the stored state
AccessOutcome(list_id, user_id) ==
    IF ~(\E l \in lists : l.id = list_id) THEN "NotFound"
    ELSE IF \/ \E l \in lists : l.id = list_id /\ l.owner_id = user_id
            \/ \E c \in list_collaborators : c.list_id = list_id /\ c.user_id = user_id
         THEN "ok"
    ELSE "Forbidden"

OwnershipOps == {"update_list", "delete_list", "remove_collaborator"}
AccessOps    == {"get_list_detail", "update_place", "delete_place"}

\* C1: no list ever has a collaborator row for its own owner, and an
\* add-collaborator-by-email naming the owner's email ends in
\* CollaboratorAlreadyExistsError.
C1_OwnerNeverCollaborator ==
    /\ \A l \in lists : CollabRows(l.id, l.owner_id) = {}
    /\ \A p \in Procs :
        (/\ pc[p] = "done"
         /\ req[p].op = "add_collaborator"
         /\ out[p].check = "ok"
         /\ UserIdByEmail(req[p].email) = OwnerOf(req[p].list_id))
        => out[p].crud = CAE

\* C1 witness: the owner invited their own email and was refused
C1_Witness ==
    \E p \in Procs :
        /\ pc[p] = "done"
        /\ req[p].op = "add_collaborator"
        /\ ListExists(req[p].list_id)
        /\ UserIdByEmail(req[p].email) = OwnerOf(req[p].list_id)
        /\ out[p].crud = CAE
        /\ out[p].status = 409

\* C4: the ownership check answers ok exactly for the owner of an existing
\* list, NotFound exactly when the list row is missing and Forbidden exactly
\* when the list exists with another owner (a collaborator included).
C4_CheckOwnership ==
    \A p \in Procs :
        (/\ req[p].op \in OwnershipOps
         /\ \/ pc[p] = BodyOf(req[p].op)
            \/ pc[p] = "done" /\ out[p].check \in {"NotFound", "Forbidden"})
        => out[p].check = OwnershipOutcome(req[p].list_id, loc[p].user)

\* C4 witness: a collaborator of the list was answered Forbidden
C4_Witness ==
    \E p \in Procs :
        /\ pc[p] = "done"
        /\ req[p].op \in OwnershipOps
        /\ out[p].check = "Forbidden"
        /\ CollabRows(req[p].list_id, loc[p].user) # {}

\* C5: the access check answers ok exactly for the owner or a collaborator
\* of an existing list, NotFound exactly when the list row is missing and
\* Forbidden otherwise, as a function of the current membership only.
C5_CheckAccess ==
    \A p \in Procs :
        (/\ req[p].op \in AccessOps
         /\ \/ pc[p] = "acc_get"
            \/ pc[p] = "done" /\ out[p].check \in {"NotFound", "Forbidden"})
        => out[p].check = AccessOutcome(req[p].list_id, loc[p].user)

\* C5 witness: a collaborator who is not the owner was answered ok
C5_Witness ==
    \E p \in Procs :
        /\ pc[p] = "acc_get"
        /\ req[p].op \in AccessOps
        /\ out[p].check = "ok"
        /\ OwnerOf(req[p].list_id) # loc[p].user
        /\ CollabRows(req[p].list_id, loc[p].user) # {}

\* the statements of add_collaborator_to_list
AcPcs == {"ac_sel_user", "ac_ins_user", "ac_sel_owner", "ac_exists", "ac_insert"}

\* C9: add-collaborator-by-email for a user who already has a membership row
\* on the list ends in CollaboratorAlreadyExistsError and the pair keeps
\* exactly one membership row.
C9_DuplicateCollaborator ==
    [][\A p \in Procs :
        (/\ req[p].op = "add_collaborator"
         /\ pc[p] \in AcPcs
         /\ CollabRows(req[p].list_id, UserIdByEmail(req[p].email)) # {})
        => /\ list_collaborators' = list_collaborators
           /\ Cardinality(CollabRows(req[p].list_id, UserIdByEmail(req[p].email))) = 1
           /\ pc'[p] = "done" => out'[p].crud = CAE]_vars

\* C9 witness: the second invitation of a collaborator's email was refused
C9_Witness ==
    \E p \in Procs :
        /\ pc[p] = "done"
        /\ req[p].op = "add_collaborator"
        /\ out[p].crud = CAE
        /\ UserIdByEmail(req[p].email) # OwnerOf(req[p].list_id)
        /\ Cardinality(CollabRows(req[p].list_id, UserIdByEmail(req[p].email))) = 1

\* C6: a list row is changed or removed only by an update-list or delete-list
\* request of its owner; such a request from anybody else (a collaborator
\* included) is answered 403 and leaves the list, its places and its
\* collaborator rows as they were.
C6_OnlyOwnerMutatesList ==
    [][/\ \A l \in lists :
            l \notin lists' =>
                \E p \in Procs :
                    /\ req[p].op \in {"update_list", "delete_list"}
                    /\ req[p].list_id = l.id
                    /\ loc[p].user = l.owner_id
       /\ \A p \in Procs :
            (/\ req[p].op \in {"update_list", "delete_list"}
             /\ pc[p] \notin {"idle", "auth"}
             /\ OwnershipOutcome(req[p].list_id, loc[p].user) = "Forbidden")
            => /\ lists' = lists
               /\ places' = places
               /\ list_collaborators' = list_collaborators
               /\ pc'[p] = "done" => out'[p].status = 403]_vars

\* C6 witness: a collaborator's update or delete of a list that has a place
\* was answered 403
C6_Witness ==
    \E p \in Procs :
        /\ pc[p] = "done"
        /\ req[p].op \in {"update_list", "delete_list"}
        /\ out[p].status = 403
        /\ CollabRows(req[p].list_id, loc[p].user) # {}
        /\ \E x \in places : x.list_id = req[p].list_id

\* C7: add-place succeeds for every caller who is owner or collaborator of
\* the list (it is never refused for lack of permission).
C7_CollaboratorCanAddPlace ==
    \A p \in Procs :
        (/\ pc[p] = "done"
         /\ req[p].op = "add_place"
         /\ AccessOutcome(req[p].list_id, loc[p].user) = "ok")
        => out[p].status \in {201, 409}

\* what update_place / delete_place owe once they are carried out on a row
\* of the list
PlaceCarriedOut(p) ==
    IF req[p].op = "delete_place"
    THEN /\ out'[p].status = 204
         /\ places' = {x \in places : x.id # req[p].pid}
    ELSE /\ out'[p].status = 200
         /\ places' = {IF x.id = req[p].pid /\ "notes" \in req[p].fields
                          /\ req[p].notes # NONE
                       THEN [x EXCEPT !.notes = req[p].notes] ELSE x : x \in places}

\* C8: update-place and delete-place are carried out for the owner and for
\* every collaborator of the list, and are answered 403 with no place row
\* changed or removed for a caller who is neither.
C8_PlaceMutationAccess ==
    [][\A p \in Procs :
        (req[p].op \in {"update_place", "delete_place"} /\ pc[p] \notin {"idle", "auth"})
        => /\ AccessOutcome(req[p].list_id, loc[p].user) = "Forbidden"
              => /\ places' = places
                 /\ pc'[p] = "done" => out'[p].status = 403
           /\ (/\ AccessOutcome(req[p].list_id, loc[p].user) = "ok"
               /\ pc[p] # "done" /\ pc'[p] = "done")
              => IF \E x \in places : x.id = req[p].pid /\ x.list_id = req[p].list_id
                 THEN PlaceCarriedOut(p)
                 ELSE out'[p].status = 404 /\ places' = places]_vars

\* C8 witness: a collaborator who is not the owner changed the notes of a place
C8_Witness ==
    \E p \in Procs :
        /\ pc[p] = "done"
        /\ req[p].op = "update_place"
        /\ out[p].status = 200
        /\ OwnerOf(req[p].list_id) # loc[p].user
        /\ CollabRows(req[p].list_id, loc[p].user) # {}
        /\ \E x \in places : x.id = req[p].pid /\ x.notes = "n1"

\* C3: update and delete of a place through a list it is not stored under
\* end in NotFound / false and change no place row.
C3_CrossListIsolation ==
    [][\A p \in Procs :
        (/\ pc[p] \in {"upd_place", "del_place"}
         /\ \E x \in places : x.id = req[p].pid /\ x.list_id # req[p].list_id)
        => /\ places' = places
           /\ pc'[p] = "done" =>
                out'[p].crud = IF req[p].op = "update_place"
                               THEN "PlaceNotFoundError" ELSE "false"]_vars

\* C3 witness: an update with a supplied value, aimed at a place of another
\* list, ended in NotFound
C3_Witness ==
    \E p \in Procs :
        /\ pc[p] = "done"
        /\ req[p].op = "update_place"
        /\ req[p].notes # NONE
        /\ out[p].crud = "PlaceNotFoundError"
        /\ \E x \in places : x.id = req[p].pid /\ x.list_id # req[p].list_id
                             /\ x.notes = NONE

\* C2: a (list, external reference) pair never has two place rows, also when
\* add-place calls interleave, and an add-place for a stored pair ends in
\* PlaceAlreadyExistsError leaving the one row.
C2_PlaceUniqueness ==
    [][/\ \A x, y \in places' :
            (x.list_id = y.list_id /\ x.place_id = y.place_id) => x = y
       /\ \A p \in Procs :
            (/\ pc[p] = "add_place" /\ pc'[p] = "done"
             /\ PlaceRows(req[p].list_id, req[p].ext) # {})
            => /\ out'[p].crud = "PlaceAlreadyExistsError"
               /\ places' = places
               /\ Cardinality(PlaceRows(req[p].list_id, req[p].ext)) = 1]_vars

\* C2 witness: two interleaved add-place calls for one pair, one stored the
\* row and the other was refused
C2_Witness ==
    \E p, q \in Procs :
        /\ p # q
        /\ pc[p] = "done" /\ pc[q] = "done"
        /\ req[p].op = "add_place" /\ req[q].op = "add_place"
        /\ req[p].list_id = req[q].list_id /\ req[p].ext = req[q].ext
        /\ out[p].crud = "ok"
        /\ out[q].crud = "PlaceAlreadyExistsError"
        /\ Cardinality(PlaceRows(req[p].list_id, req[p].ext)) = 1

\* C10: when add-collaborator calls for one (list, email) interleave, the
\* pair gets at most one membership row and a call that passed the
\* permission check ends either in success or in
\* CollaboratorAlreadyExistsError, never in a storage error.
C10_RaceLoserGetsConflict ==
    /\ \A c, e \in list_collaborators :
            (c.list_id = e.list_id /\ c.user_id = e.user_id) => c = e
    /\ \A p \in Procs :
        (/\ pc[p] = "done"
         /\ req[p].op = "add_collaborator"
         /\ out[p].check = "ok")
        => out[p].crud \in {"ok", CAE}

\* the statements of get_or_create_user_by_firebase
GocPcs == {"goc_by_uid", "goc_full_uid", "goc_by_email", "goc_full_email",
           "goc_update_uid", "goc_create"}

\* C11: when check-username calls for one new identity (same uid and email)
\* interleave, one user row results and every call ends in success with the
\* id of that row; none ends in the uniqueness conflict.
C11_ConcurrentResolve ==
    /\ \A u, v \in users : (u.email = v.email \/ u.firebase_uid = v.firebase_uid) => u = v
    /\ \A p \in Procs :
        (/\ pc[p] = "done"
         /\ req[p].op = "check_username"
         /\ req[p].email # NONE)
        => /\ out[p].crud = "ok"
           /\ \E u \in users : /\ u.id = out[p].id
                                /\ u.firebase_uid = req[p].uid
                                /\ u.email = req[p].email

\* C12: resolving (uid, email) returns the user holding uid if there is one;
\* else the user holding email, whose stored uid is replaced by uid on that
\* row; else one new row carrying uid and email.  No other row changes.
C12_ResolveOrder ==
    [][\A p \in Procs :
        (req[p].op = "check_username" /\ req[p].email # NONE /\ pc[p] \in GocPcs)
        => IF pc'[p] # "done" THEN users' = users
           ELSE LET byUid   == {u \in users : u.firebase_uid = req[p].uid}
                    byEmail == {u \in users : u.email = req[p].email}
                IN /\ out'[p].crud = "ok"
                   /\ IF byUid # {}
                      THEN /\ users' = users
                           /\ \E u \in byUid : out'[p].id = u.id
                      ELSE IF byEmail # {}
                      THEN \E u \in byEmail :
                             /\ out'[p].id = u.id
                             /\ users' = (users \ {u}) \cup
                                         {[u EXCEPT !.firebase_uid = req[p].uid]}
                      ELSE \E n \in UserIds :
                             /\ \A u \in users : u.id # n
                             /\ out'[p].id = n
                             /\ users' = users \cup
                                   {[id |-> n, email |-> req[p].email,
                                     firebase_uid |-> req[p].uid,
                                     username |-> NONE,
                                     profile_is_public |-> "t", lists_are_public |-> "t",
                                     allow_analytics |-> "t"]}]_vars

\* C12 witness: a user found by email was rebound from another uid to the
\* token's uid
C12_Witness ==
    \E p \in Procs :
        /\ pc[p] = "done"
        /\ req[p].op = "check_username"
        /\ req[p].uid = "f3"
        /\ loc[p].existing \in {"f1", "f2"}
        /\ out[p].crud = "ok"
        /\ \E u \in users : /\ u.id = out[p].id
                             /\ u.email = req[p].email
                             /\ u.firebase_uid = "f3"
        /\ Cardinality(users) = 2

\* C13: the needs-username flag a check-username call returns is true
\* exactly when the resolved user's username is unset: true for a newly
\* created user, false once a set-username for that user has succeeded.
C13_NeedsUsername ==
    \A p \in Procs :
        (/\ pc[p] = "done"
         /\ req[p].op = "check_username"
         /\ out[p].crud = "ok")
        => \E u \in users : /\ u.id = out[p].id
                             /\ out[p].needs = (u.username = NONE)

\* C13 witness: a user who has set a username is told it needs none
C13_Witness ==
    \E p \in Procs :
        /\ pc[p] = "done"
        /\ req[p].op = "check_username"
        /\ out[p].crud = "ok"
        /\ ~out[p].needs
        /\ \E u \in users : u.id = out[p].id /\ u.username \in Usernames

\* users created from an email alone, not yet bound to an identity
Placeholders == {u \in users : u.firebase_uid = NONE}

\* C14: add-collaborator with an email no user has creates one placeholder
\* user (that email, no identity) and makes it a collaborator; the first
\* check-username of a new identity carrying that email returns the
\* placeholder's id, binds the identity to that row, reports
\* needsUsername = true, creates no user row and leaves the membership rows
\* as they are.
C14_PlaceholderAdoption ==
    [][\A p \in Procs :
        /\ (pc[p] = "ac_ins_user" /\ ~(\E u \in users : u.email = req[p].email))
           => \E n \in UserIds :
                 /\ \A u \in users : u.id # n
                 /\ loc'[p].target = n
                 /\ users' = users \cup {[id |-> n, email |-> req[p].email,
                                           firebase_uid |-> NONE, username |-> NONE,
                                           profile_is_public |-> "t", lists_are_public |-> "t",
                                           allow_analytics |-> "t"]}
        /\ (pc[p] = "ac_insert" /\ \E u \in Placeholders : u.id = loc[p].target)
           => /\ out'[p].crud = "ok"
              /\ \E c \in list_collaborators' :
                     c.list_id = req[p].list_id /\ c.user_id = loc[p].target
        /\ (/\ req[p].op = "check_username"
            /\ pc[p] \in GocPcs /\ pc'[p] = "done"
            /\ ~(\E u \in users : u.firebase_uid = req[p].uid)
            /\ \E u \in Placeholders : u.email = req[p].email)
           => \E u \in Placeholders :
                 /\ u.email = req[p].email
                 /\ out'[p].crud = "ok"
                 /\ out'[p].id = u.id
                 /\ out'[p].needs
                 /\ users' = (users \ {u}) \cup {[u EXCEPT !.firebase_uid = req[p].uid]}
                 /\ list_collaborators' = list_collaborators]_vars

\* C14 witness: an invited email's placeholder was adopted by its first
\* check-username and is still the collaborator
C14_Witness ==
    \E p \in Procs :
        /\ pc[p] = "done"
        /\ req[p].op = "check_username"
        /\ loc[p].existing = NONE
        /\ out[p].crud = "ok"
        /\ out[p].needs
        /\ \E u \in users : /\ u.id = out[p].id
                             /\ u.email = req[p].email
                             /\ u.firebase_uid = req[p].uid
                             /\ \E c \in list_collaborators : c.user_id = u.id
        /\ Cardinality(users) = 3

\* C15: a follow call returns already = true exactly when the (follower,
\* target) edge existed when it ran, is no error either way, and leaves
\* exactly one edge for the pair; a pair never has two edges, also when
\* follow calls interleave.
C15_FollowIdempotent ==
    [][/\ \A f, g \in user_follows' :
            (f.follower_id = g.follower_id /\ f.followed_id = g.followed_id) => f = g
       /\ \A p \in Procs :
            (pc[p] = "fl_insert" /\ pc'[p] = "done")
            => /\ out'[p].crud =
                     IF \E f \in user_follows : /\ f.follower_id = loc[p].user
                                                /\ f.followed_id = req[p].target
                     THEN "true" ELSE "false"
               /\ out'[p].status = IF out'[p].crud = "true" THEN 200 ELSE 201
               /\ Cardinality({f \in user_follows' :
                                 /\ f.follower_id = loc[p].user
                                 /\ f.followed_id = req[p].target}) = 1]_vars

\* C15 witness: two follow calls for one pair, the first answered
\* already = false, the second already = true, one edge stored
C15_Witness ==
    \E p, q \in Procs :
        /\ p # q
        /\ pc[p] = "done" /\ pc[q] = "done"
        /\ req[p].op = "follow" /\ req[q].op = "follow"
        /\ loc[p].user = loc[q].user /\ req[p].target = req[q].target
        /\ out[p].crud = "false" /\ out[p].status = 201
        /\ out[q].crud = "true" /\ out[q].status = 200
        /\ Cardinality(FollowRows(loc[p].user, req[p].target)) = 1

\* C16: a follow request whose target is the caller is answered 400 by the
\* endpoint without any statement of follow_user being run and without a
\* change to the store, and the follow graph never has a self-loop.
C16_NoSelfFollow ==
    [][/\ \A f \in user_follows' : f.follower_id # f.followed_id
       /\ \A p \in Procs :
            (/\ req[p].op = "follow"
             /\ pc[p] \notin {"idle", "auth", "done"}
             /\ loc[p].user = req[p].target)
            => /\ pc[p] = "fl_self"
               /\ pc'[p] = "done"
               /\ out'[p].status = 400
               /\ out'[p].crud = "none"
               /\ user_follows' = user_follows
               /\ users' = users]_vars

\* C16 witness: a self-follow was answered 400 while the caller follows
\* somebody else
C16_Witness ==
    \E p \in Procs :
        /\ pc[p] = "done"
        /\ req[p].op = "follow"
        /\ loc[p].user = req[p].target
        /\ out[p].status = 400
        /\ \E f \in user_follows : f.follower_id = loc[p].user

\* C17: follow of a target id that has no user row ends in
\* UserNotFoundError (404) and stores no edge; no edge ever points at a
\* missing user.
C17_FollowMissingTarget ==
    [][/\ \A f \in user_follows' : \E u \in users' : u.id = f.followed_id
       /\ \A p \in Procs :
            (/\ req[p].op = "follow"
             /\ pc[p] \in {"fl_exists", "fl_insert"}
             /\ ~(\E u \in users : u.id = req[p].target))
            => /\ pc'[p] = "done"
               /\ out'[p].crud = "UserNotFoundError"
               /\ out'[p].status = 404
               /\ user_follows' = user_follows]_vars

\* C17 witness: a follow of user id 3, which has no row, was answered 404
C17_Witness ==
    \E p \in Procs :
        /\ pc[p] = "done"
        /\ req[p].op = "follow"
        /\ ~(\E u \in users : u.id = req[p].target)
        /\ out[p].crud = "UserNotFoundError"
        /\ out[p].status = 404

\* C18: unfollow returns true exactly when the (follower, target) edge
\* existed; afterwards that edge is absent and every other edge is as it was.
\* A false result is answered 404 exactly when the target has no user row and
\* 200 otherwise.
C18_Unfollow ==
    [][\A p \in Procs :
        /\ pc[p] = "uf_delete"
           => LET edge == {f \in user_follows : /\ f.follower_id = loc[p].user
                                                /\ f.followed_id = req[p].target}
              IN /\ out'[p].crud = IF edge # {} THEN "true" ELSE "false"
                 /\ user_follows' = user_follows \ edge
                 /\ edge # {} => pc'[p] = "done" /\ out'[p].status = 200
                 /\ edge = {} => pc'[p] # "done"
        /\ pc[p] = "uf_exists"
           => /\ pc'[p] = "done"
              /\ out'[p].crud = "false"
              /\ user_follows' = user_follows
              /\ out'[p].status =
                    IF \E u \in users : u.id = req[p].target THEN 200 ELSE 404]_vars

\* C18 witness: an unfollow removed its edge and left another edge in place
C18_Witness ==
    \E p \in Procs :
        /\ pc[p] = "done"
        /\ req[p].op = "unfollow"
        /\ out[p].crud = "true"
        /\ FollowRows(loc[p].user, req[p].target) = {}
        /\ user_follows # {}

\* C19: no two distinct users have usernames that are equal ignoring case;
\* a set-username to a name another user holds (ignoring case) ends in
\* UsernameAlreadyExistsError and changes no username, also when the other
\* user wrote the name after the caller's "not taken" check.
C19_UsernameUnique ==
    [][/\ \A u, v \in users' :
            (u.id # v.id /\ u.username # NONE /\ v.username # NONE)
            => Lower(u.username) # Lower(v.username)
       /\ \A p \in Procs :
            (/\ req[p].op = "set_username"
             /\ pc[p] \in {"su_check", "su_update"}
             /\ pc'[p] # pc[p]
             /\ \E u \in users : /\ u.id # loc[p].user
                                  /\ u.username # NONE
                                  /\ Lower(u.username) = Lower(req[p].username))
            => /\ pc'[p] = "done"
               /\ out'[p].crud = "UsernameAlreadyExistsError"
               /\ out'[p].status = 409
               /\ users' = users]_vars

\* C19 witness: a set-username passed its check, the other user then took
\* the name in another case, and the first call is about to write
C19_Witness ==
    \E p, q \in Procs :
        /\ p # q
        /\ pc[p] = "su_update"
        /\ pc[q] = "done"
        /\ req[q].op = "set_username"
        /\ out[q].crud = "ok"
        /\ req[p].username # req[q].username
        /\ Lower(req[p].username) = Lower(req[q].username)
        /\ \E u \in users : u.id = loc[q].user /\ u.id # loc[p].user
                             /\ u.username = req[q].username

\* the statements of delete_collaborator_from_list
RcPcs == {"rc_sel_owner", "rc_delete"}

\* C20: remove-collaborator returns false and deletes nothing when the
\* target is the list's owner or has no membership row on the list, and
\* returns true exactly when it deleted the target's row on that list; no
\* other membership row and no list row (the owner's access) changes.
C20_RemoveCollaborator ==
    [][\A p \in Procs :
        (req[p].op = "remove_collaborator" /\ pc[p] \in RcPcs)
        => LET row == {c \in list_collaborators : /\ c.list_id = req[p].list_id
                                                  /\ c.user_id = req[p].target}
               isOwner == \E l \in lists : /\ l.id = req[p].list_id
                                            /\ l.owner_id = req[p].target
           IN /\ lists' = lists
              /\ pc'[p] \in RcPcs => list_collaborators' = list_collaborators
              /\ pc'[p] \notin RcPcs
                 => IF isOwner \/ row = {}
                    THEN /\ out'[p].crud = "false"
                         /\ list_collaborators' = list_collaborators
                    ELSE /\ out'[p].crud = "true"
                         /\ list_collaborators' = list_collaborators \ row]_vars

\* C20 witness: a removal deleted the target's row on one list and left the
\* same user's row on another list
C20_Witness ==
    \E p \in Procs :
        /\ pc[p] = "done"
        /\ req[p].op = "remove_collaborator"
        /\ out[p].crud = "true"
        /\ CollabRows(req[p].list_id, req[p].target) = {}
        /\ \E c \in list_collaborators :
               c.user_id = req[p].target /\ c.list_id # req[p].list_id

\* the stored tables other than lists and places
OtherTables == <<users, user_follows, list_collaborators, notifications,
                 user_seq, list_seq, place_seq>>

\* C21: an update of a list or of a place with an empty partial succeeds as a
\* no-op: it changes no stored field, the update timestamp included, and
\* returns the current record, which is also what a second identical call
\* reads from the unchanged store.
C21_EmptyUpdateNoOp ==
    [][\A p \in Procs :
        /\ (/\ req[p].op = "update_list" /\ req[p].fields = {}
            /\ pc[p] = "upd_list" /\ pc'[p] # pc[p]
            /\ get_list_by_id(req[p].list_id) # {})
           => /\ lists' = lists /\ places' = places
              /\ OtherTables' = OtherTables
              /\ pc'[p] = "collab_emails"
              /\ out'[p].crud = "ok"
              /\ out'[p].rec = ListRecord(req[p].list_id)
              /\ out'[p].rec = ListRecordOf(CHOOSE l \in lists' : l.id = req[p].list_id)
        /\ (/\ req[p].op = "update_list" /\ req[p].fields = {}
            /\ pc[p] = "collab_emails" /\ pc'[p] # pc[p])
           => /\ lists' = lists /\ places' = places
              /\ OtherTables' = OtherTables
              /\ out'[p].status = 200
              /\ out'[p].rec = out[p].rec
              /\ out'[p].collabs = CollaboratorEmails(req[p].list_id)
        /\ (/\ req[p].op = "update_place" /\ req[p].fields = {}
            /\ pc[p] = "upd_place" /\ pc'[p] # pc[p]
            /\ PlaceInList(req[p].pid, req[p].list_id) # {})
           => /\ lists' = lists /\ places' = places
              /\ OtherTables' = OtherTables
              /\ out'[p].status = 200
              /\ out'[p].rec = PlaceRecord(CHOOSE x \in places : x.id = req[p].pid)
              /\ out'[p].rec = PlaceRecord(CHOOSE x \in places' : x.id = req[p].pid)
      ]_vars

\* an empty list update has answered 200 with the stored record at a time
\* later than the list's update timestamp
C21_Witness ==
    \E p \in Procs :
        /\ pc[p] = "done" /\ req[p].op = "update_list" /\ req[p].fields = {}
        /\ out[p].status = 200
        /\ \E l \in lists : /\ l.id = req[p].list_id
                            /\ l.updated_at < now
                            /\ out[p].rec = ListRecordOf(l)

\* C22: an update of a list with at least one field writes exactly the
\* supplied fields among name and is_private, and the update timestamp, of
\* that one row, and returns the new details with the collaborators; owner,
\* description, places, collaborator rows and every other list stay as they
\* were.  No step of any operation changes the owner of a stored list.
C22_UpdateListFrame ==
    [][/\ \A p \in Procs :
           /\ (/\ req[p].op = "update_list" /\ req[p].fields # {}
               /\ pc[p] = "upd_list" /\ pc'[p] # pc[p]
               /\ get_list_by_id(req[p].list_id) # {})
              => /\ places' = places
                 /\ OtherTables' = OtherTables
                 /\ {l.id : l \in lists'} = {l.id : l \in lists}
                 /\ \A l \in lists : l.id # req[p].list_id => l \in lists'
                 /\ \A l \in lists : \A m \in lists' :
                       (l.id = req[p].list_id /\ m.id = l.id) =>
                          /\ m.name = IF "name" \in req[p].fields
                                      THEN req[p].name ELSE l.name
                          /\ m.is_private = IF "isPrivate" \in req[p].fields
                                            THEN req[p].is_private ELSE l.is_private
                          /\ m.owner_id = l.owner_id
                          /\ m.description = l.description
                          /\ m.created_at = l.created_at
                          /\ out'[p].rec = ListRecordOf(m)
                 /\ pc'[p] = "collab_emails"
           /\ (/\ req[p].op = "update_list" /\ req[p].fields # {}
               /\ pc[p] = "collab_emails" /\ pc'[p] # pc[p])
              => /\ lists' = lists /\ places' = places
                 /\ OtherTables' = OtherTables
                 /\ out'[p].status = 200
                 /\ out'[p].rec = out[p].rec
                 /\ out'[p].collabs = CollaboratorEmails(req[p].list_id)
       /\ \A l \in lists : \A m \in lists' : m.id = l.id => m.owner_id = l.owner_id
      ]_vars

\* an update that supplied only the name has answered 200 on a private list
\* with a collaborator, next to a second list
C22_Witness ==
    \E p \in Procs :
        /\ pc[p] = "done" /\ req[p].op = "update_list" /\ req[p].fields = {"name"}
        /\ out[p].status = 200
        /\ out[p].collabs = {"e2"}
        /\ \E l \in lists : /\ l.id = req[p].list_id /\ l.name = "b"
                            /\ l.is_private /\ l.description = "d1"
                            /\ l.updated_at > l.created_at
        /\ \E l \in lists : l.id # req[p].list_id
        /\ places # {}

\* C23: an update of a place that supplies only notes writes the notes (when
\* the supplied value is not null) and the update timestamp of that one place;
\* its rating, external reference, owning list and creation time, and every
\* other place, stay as they were.
C23_UpdatePlaceNotesOnly ==
    [][\A p \in Procs :
        (/\ req[p].op = "update_place" /\ req[p].fields = {"notes"}
         /\ pc[p] = "upd_place" /\ pc'[p] # pc[p]
         /\ PlaceInList(req[p].pid, req[p].list_id) # {})
        => /\ lists' = lists
           /\ OtherTables' = OtherTables
           /\ {x.id : x \in places'} = {x.id : x \in places}
           /\ \A x \in places : x.id # req[p].pid => x \in places'
           /\ \A x \in places : \A y \in places' :
                 (x.id = req[p].pid /\ y.id = x.id) =>
                    /\ y.notes = IF req[p].notes # NONE THEN req[p].notes ELSE x.notes
                    /\ y.rating = x.rating
                    /\ y.place_id = x.place_id
                    /\ y.list_id = x.list_id
                    /\ y.created_at = x.created_at
                    /\ out'[p].rec = PlaceRecord(y)
           /\ out'[p].status = 200
      ]_vars

\* a notes-only update has answered 200 on a rated place, next to a second place
C23_Witness ==
    \E p \in Procs :
        /\ pc[p] = "done" /\ req[p].op = "update_place" /\ req[p].fields = {"notes"}
        /\ out[p].status = 200
        /\ \E x \in places : /\ x.id = req[p].pid /\ x.notes = "n1"
                             /\ x.rating = "r1" /\ x.updated_at > x.created_at
        /\ \E x \in places : x.id # req[p].pid

\* every place row and every collaborator row refers to a stored list
RowsReferToLists ==
    /\ \A x \in places : ListExists(x.list_id)
    /\ \A c \in list_collaborators : ListExists(c.list_id)

\* C24: delete of a list returns true exactly when a list row existed and was
\* removed, and false, changing nothing, otherwise; from then on no place row
\* and no collaborator row refers to that list, its id is not given out again,
\* and an access check run for a read of it answers NotFound.
C24_DeleteList ==
    [][/\ \A p \in Procs :
           /\ (pc[p] = "del_list" /\ pc'[p] # pc[p]) =>
                 IF ListExists(req[p].list_id)
                 THEN /\ out'[p].crud = "true"
                      /\ lists' = {l \in lists : l.id # req[p].list_id}
                      /\ \A x \in places' : x.list_id # req[p].list_id
                      /\ \A c \in list_collaborators' : c.list_id # req[p].list_id
                 ELSE /\ out'[p].crud = "false"
                      /\ lists' = lists /\ places' = places
                      /\ OtherTables' = OtherTables
           /\ (/\ req[p].op = "get_list_detail" /\ ~ListExists(req[p].list_id)
               /\ pc[p] = "acc_q1" /\ pc'[p] # pc[p])
              => pc'[p] = "acc_q2"
           /\ (/\ req[p].op = "get_list_detail" /\ ~ListExists(req[p].list_id)
               /\ pc[p] = "acc_q2" /\ pc'[p] # pc[p])
              => /\ out'[p].check = "NotFound"
                 /\ out'[p].status = 404
                 /\ pc'[p] = "done"
       /\ RowsReferToLists'
       /\ \A l \in lists' : l \notin lists => l.id > list_seq
      ]_vars

\* a delete has removed a list that had a place and a collaborator, while the
\* other request's delete of the same list has returned false
C24_Witness ==
    \E p, q \in Procs :
        /\ pc[p] = "done" /\ req[p].op = "delete_list" /\ out[p].crud = "true"
        /\ pc[q] = "done" /\ req[q].op = "delete_list" /\ out[q].crud = "false"
        /\ req[q].list_id = req[p].list_id
        /\ place_seq > 0
        /\ ~ListExists(req[p].list_id)

\* every list owner, collaborator, notification owner and follow endpoint is
\* a stored user
RowsReferToUsers ==
    /\ \A l \in lists : check_user_exists(l.owner_id)
    /\ \A c \in list_collaborators : check_user_exists(c.user_id)
    /\ \A n \in notifications : check_user_exists(n.user_id)
    /\ \A f \in user_follows :
          check_user_exists(f.follower_id) /\ check_user_exists(f.followed_id)

\* C25: when a user deletes their account, the user row goes and with it every
\* list the user owned, every place of such a list, every collaborator row of
\* the user or of such a list, every notification of the user and every follow
\* edge with the user; after every step each list owner, collaborator,
\* notification owner and follow endpoint is a stored user and each place and
\* collaborator row refers to a stored list.
C25_AccountDeletion ==
    [][/\ \A p \in Procs :
           (/\ pc[p] = "del_user" /\ pc'[p] # pc[p]
            /\ check_user_exists(loc[p].user))
           => /\ out'[p].crud = "true"
              /\ users' = {u \in users : u.id # loc[p].user}
              /\ \A l \in lists' : l.owner_id # loc[p].user
              /\ \A x \in places' : \A l \in lists :
                    l.id = x.list_id => l.owner_id # loc[p].user
              /\ \A c \in list_collaborators' :
                    /\ c.user_id # loc[p].user
                    /\ \A l \in lists : l.id = c.list_id => l.owner_id # loc[p].user
              /\ \A n \in notifications' : n.user_id # loc[p].user
              /\ \A f \in user_follows' :
                    f.follower_id # loc[p].user /\ f.followed_id # loc[p].user
       /\ RowsReferToUsers'
       /\ \A x \in places' : \E l \in lists' : l.id = x.list_id
       /\ \A c \in list_collaborators' : \E l \in lists' : l.id = c.list_id
      ]_vars

\* the account of a user who owned a list with a place and was followed has
\* been deleted, and none of those rows is left
C25_Witness ==
    \E p, q \in Procs :
        /\ pc[p] = "done" /\ req[p].op = "delete_user" /\ req[p].uid = "f1"
        /\ out[p].crud = "true"
        /\ pc[q] = "done" /\ req[q].op = "follow" /\ out[q].status = 201
        /\ list_seq > 0 /\ place_seq > 0
        /\ lists = {} /\ places = {} /\ user_follows = {}
        /\ get_user_by_firebase_uid("f1") = {}

\* the operations behind deps.get_current_user_id that read or write lists
\* and places
ProtectedOps ==
    {"create_list", "get_list_detail", "update_list", "delete_list", "add_place",
     "update_place", "delete_place", "add_collaborator", "remove_collaborator"}

RankIn(S, x) ==
    Cardinality({y \in S : \/ y.created_at > x.created_at
                            \/ (y.created_at = x.created_at /\ y.id > x.id)})

\* C28: a listing of lists and the listing of the places of a list are ordered
\* by creation time descending, ties by id descending; page k holds the rows
\* at positions (k-1)*page_size+1 .. k*page_size of that order, so the stored
\* state alone decides what a call returns.
C28_ListingOrder ==
    \A p \in Procs :
        (/\ pc[p] = "done" /\ out[p].status = 200
         /\ req[p].op \in ListListings \cup {"list_places"})
        => LET S     == ResultRows(req[p], loc[p].user)
               first == (req[p].page - 1) * req[p].page_size
           IN  /\ Len(out[p].items) =
                     Cardinality({x \in S : /\ RankIn(S, x) >= first
                                            /\ RankIn(S, x) < first + req[p].page_size})
               /\ \A i \in 1..Len(out[p].items) :
                     \E x \in S : /\ x.id = out[p].items[i]
                                  /\ RankIn(S, x) = first + i - 1

\* the second page of size one of the public lists holds the older-numbered of
\* two lists created at the same time, and a later list exists
C28_Witness ==
    \E p \in Procs :
        /\ pc[p] = "done" /\ out[p].status = 200
        /\ req[p].op = "public_lists"
        /\ req[p].page = 2 /\ req[p].page_size = 1
        /\ \E a, b \in lists :
              /\ ~a.is_private /\ ~b.is_private
              /\ a.created_at = b.created_at /\ a.id < b.id
              /\ out[p].items = <<a.id>>

\* txt holds q as a contiguous run of characters
Contains(txt, q) ==
    \E i \in 1..(Len(txt) + 1) :
        /\ i + Len(q) - 1 <= Len(txt)
        /\ \A j \in 1..Len(q) : txt[i + j - 1] = q[j]

\* a column holds the query, ignoring case
ContainsIgnoringCase(column, q) ==
    column # NONE /\ Contains(LowerSeq(Chars(column)), LowerSeq(Chars(q)))

\* the lists each discovery listing is to return
DiscoveryRows(r, user_id) ==
    CASE r.op = "public_lists" -> {l \in lists : ~l.is_private}
      [] r.op = "recent_lists" -> {l \in lists : ~l.is_private \/ l.owner_id = user_id}
      [] r.op = "search_lists" ->
            {l \in lists :
                /\ (ContainsIgnoringCase(l.name, r.q)
                    \/ ContainsIgnoringCase(l.description, r.q))
                /\ (~l.is_private \/ (user_id # NULL /\ l.owner_id = user_id))}

\* C29: Public returns exactly the lists that are not private, Recent exactly
\* the lists that are public or owned by the caller, Search exactly the lists
\* whose name or description contains the query ignoring case and that are
\* public or owned by the authenticated caller; no listing returns a private
\* list of another user.
C29_DiscoveryVisibility ==
    \A p \in Procs :
        (/\ pc[p] = "done" /\ out[p].status = 200
         /\ req[p].op \in {"public_lists", "recent_lists", "search_lists"})
        => LET D == DiscoveryRows(req[p], loc[p].user)
           IN  /\ out[p].total = Cardinality(D)
               /\ \A i \in 1..Len(out[p].items) :
                     \E l \in D : l.id = out[p].items[i]
               /\ (req[p].page = 1 /\ req[p].page_size >= Cardinality(D))
                  => {out[p].items[i] : i \in 1..Len(out[p].items)} = {l.id : l \in D}
               /\ \A i \in 1..Len(out[p].items) : \A l \in lists :
                     l.id = out[p].items[i] =>
                        (~l.is_private \/ l.owner_id = loc[p].user)

\* the part of C29 that does not depend on how the query is matched: no
\* discovery listing returns a private list of another user
C29_NoForeignPrivateList ==
    \A p \in Procs :
        (/\ pc[p] = "done" /\ out[p].status = 200
         /\ req[p].op \in {"public_lists", "recent_lists", "search_lists"})
        => \A i \in 1..Len(out[p].items) : \A l \in lists :
              l.id = out[p].items[i] => (~l.is_private \/ l.owner_id = loc[p].user)

\* the ids a response carries
ItemSet(p) == {out[p].items[i] : i \in 1..Len(out[p].items)}

\* C27: for every listing, on a fixed stored state and page_size, the items of
\* the pages 1..total_pages together are the full result set, without
\* duplicate and without omission, and total_pages is the least number of
\* pages of that size that hold total_items.  (In the specification the
\* result sets only grow, so two responses whose total_items is the current
\* size of the result set were computed on the current state.)
C27_PaginationComplete ==
    /\ \A p \in Procs :
          (pc[p] = "done" /\ out[p].status = 200 /\ req[p].op \in Listings)
          => /\ out[p].pages * req[p].page_size >= out[p].total
             /\ (out[p].pages - 1) * req[p].page_size < out[p].total
                  \/ (out[p].pages = 0 /\ out[p].total = 0)
    /\ \A p, q \in Procs :
          LET S == ResultRows(req[p], loc[p].user)
          IN  (/\ pc[p] = "done" /\ out[p].status = 200 /\ req[p].op \in Listings
               /\ pc[q] = "done" /\ out[q].status = 200 /\ req[q].op = req[p].op
               /\ req[q].uid = req[p].uid /\ req[q].page_size = req[p].page_size
               /\ out[p].total = Cardinality(S) /\ out[q].total = Cardinality(S)
               /\ {req[p].page, req[q].page} = 1..out[p].pages)
              => /\ ItemSet(p) \cup ItemSet(q) = {x.id : x \in S}
                 /\ Len(out[p].items) = Cardinality(ItemSet(p))
                 /\ (req[p].page # req[q].page => ItemSet(p) \cap ItemSet(q) = {})

\* the error types the managers declare
TypedErrors ==
    {"DatabaseInteractionError", "PlaceAlreadyExistsError", "PlaceNotFoundError",
     "CollaboratorAlreadyExistsError", "UserNotFoundError",
     "UsernameAlreadyExistsError"}

\* C30: whatever a manager operation or an access check ends with, when a
\* storage call in it has failed included, is a result or one of the typed
\* errors; the storage layer's own exception never leaves it.
C30_TypedErrorsOnly ==
    \A p \in Procs :
        /\ out[p].crud \in {"none", "ok", "true", "false"} \cup TypedErrors
        /\ out[p].check \in {"none", "ok", "NotFound", "Forbidden"}

\* C31: in every reachable state, whatever the interleaving of identity
\* resolutions and invitations by email, no two user rows have the same email
\* and no two user rows have the same external identity (firebase_uid).
C31_UniqueIdentity ==
    \A u, v \in users :
        u.id # v.id
        => /\ (u.email = NONE \/ u.email # v.email)
           /\ (u.firebase_uid = NONE \/ u.firebase_uid # v.firebase_uid)

\* an identity resolution lost the race for its email or its identity to a
\* concurrent request, and an invitation met the row a resolution had created
C31_Witness ==
    /\ \E p \in Procs :
          /\ pc[p] = "done" /\ req[p].op = "check_username"
          /\ out[p].crud \in {"UsernameAlreadyExistsError", "DatabaseInteractionError"}
    /\ \E u \in users : u.email = "e3" /\ u.firebase_uid = "f3"
    /\ \E c \in list_collaborators : c.user_id = UserIdByEmail("e3")

\* C32: when the owner of a list invites an existing user by user id with a
\* role, the invitation succeeds and that user is a member of the list; a
\* member who asks for the member listing of the list is answered with it.
C32_InviteByUserId ==
    \A p \in Procs :
        /\ (/\ pc[p] = "done" /\ req[p].op = "invite_member"
            /\ OwnerOf(req[p].list_id) = loc[p].user
            /\ check_user_exists(req[p].target))
           => /\ out[p].status = 201
              /\ CollabRows(req[p].list_id, req[p].target) # {}
        /\ (/\ pc[p] = "done" /\ req[p].op = "get_members"
            /\ \E u \in get_user_by_firebase_uid(req[p].uid) :
                   CollabRows(req[p].list_id, u.id) # {})
           => out[p].status = 200

\* C33: the isOwner field of a list-detail response (create, read, update)
\* is true exactly when the requester is the owner of the list; a
\* collaborator who reads the details receives isOwner = false.
C33_IsOwner ==
    \A p \in Procs :
        (/\ pc[p] = "done" /\ out[p].status \in {200, 201}
         /\ req[p].op \in {"create_list", "get_list_detail", "update_list"})
        => out[p].is_owner = (OwnerOf(req[p].list_id) = loc[p].user)

\* C34: when other requests create or delete lists or change memberships
\* between the two queries of checkOwnership or checkAccess, the outcome is
\* the one an atomic check gives at some instant of the call.  The owner of a
\* list never changes, so for its owner a list either does not exist or
\* grants the relationship at every instant: the second query of a check
\* never answers Forbidden to the user who owns the list at that instant.
C34_ChecksLinearizable ==
    [][\A p \in Procs :
          (/\ pc[p] \in {"own_q2", "acc_q2"}
           /\ pc'[p] = "done"
           /\ out'[p].check = "Forbidden")
          => OwnerOf(req[p].list_id) # loc[p].user]_vars

\* C35: a place update or place delete is applied only if its caller is
\* owner or collaborator of the list at the instant the place row is changed,
\* also when the owner removes the caller from the list between the
\* request's access check and its mutation.
C35_AccessAtMutation ==
    [][\A p \in Procs :
          (/\ req[p].op \in {"update_place", "delete_place"}
           /\ pc[p] \in {"upd_place", "del_place"}
           /\ pc'[p] = "done"
           /\ places' # places)
          => AccessOutcome(req[p].list_id, loc[p].user) = "ok"]_vars

\* C36: a request is treated as coming from an identified caller only if its
\* Authorization header uses the Bearer scheme and carries a token the
\* identity provider verified; every other request is rejected with 401 and
\* changes no state.
C36_VerifiedBearerOnly ==
    [][\A p \in Procs :
          (pc[p] = "token" /\ pc'[p] # "token")
          => IF req[p].scheme = "Bearer" /\ firebase_verify_token(req[p].token) # NONE
             THEN /\ pc'[p] = "auth"
                  /\ req'[p].uid = firebase_verify_token(req[p].token)
             ELSE /\ pc'[p] = "done" /\ out'[p].status = 401
                  /\ UNCHANGED db]_vars

\* C37: reading a user by id answers NotFound when no row has that id;
\* the profile of a user whose profile_is_public is false is returned
\* only to that user, and any other requester is answered Forbidden.
C37_PrivateProfile ==
    \A p \in SeqProcs :
        (pc[p] = "done" /\ req[p].op = "read_user" /\ loc[p].user # NULL) =>
            LET rows == get_user_by_id(req[p].target)
            IN  /\ (rows = {}) => out[p].status = 404
                /\ \A u \in rows : u.profile_is_public = "f" =>
                      IF loc[p].user = u.id
                      THEN out[p].status = 200 /\ out[p].rec = u
                      ELSE out[p].status = 403

\* a requester was refused the private profile of another user
C37_Witness ==
    \E p \in SeqProcs :
        /\ pc[p] = "done" /\ req[p].op = "read_user"
        /\ out[p].status = 403
        /\ loc[p].user # NULL /\ loc[p].user # req[p].target
        /\ \E u \in get_user_by_id(req[p].target) : u.profile_is_public = "f"

\* C38: a privacy settings update changes only the flags it supplies,
\* leaves the user's other flags and every other user's row unchanged,
\* and leaves each of the three flags a boolean, never null.
C38_PrivacyFlagsFrame ==
    [][\A p \in SeqProcs :
          (pc[p] = "upd_settings" /\ pc'[p] = "done") =>
              /\ \A u \in users : u.id # loc[p].user => u \in users'
              /\ \A u \in users : \E v \in users' :
                    /\ v.id = u.id
                    /\ \A f \in PrivacyFlags \ req[p].fields : v[f] = u[f]
              /\ \A v \in users' : \A f \in PrivacyFlags : v[f] \in {"t", "f"}]_vars

\* the steps of the discovery listing requests
DiscoveryOps == {"public_lists", "recent_lists", "search_lists"}

\* C39 as stated: no step of a discovery listing request changes any
\* stored table.
C39_DiscoveryReadOnly ==
    [][\A p \in SeqProcs :
          req[p].op \in DiscoveryOps =>
              UNCHANGED <<users, user_follows, lists, list_collaborators, places,
                          notifications>>]_vars

\* C39: a discovery listing request changes no table but users; the public
\* and recent listings and a search without a token that carries uid and
\* e-mail leave users unchanged too; a search with such a token changes
\* users only as the identity resolution does: it inserts one row with the
\* token's uid and e-mail when no row has either, or it rebinds the one row
\* with the token's e-mail to the token's uid.
C39_DiscoveryFrame ==
    [][\A p \in SeqProcs :
          req[p].op \in DiscoveryOps =>
              /\ UNCHANGED <<user_follows, lists, list_collaborators, places,
                             notifications>>
              /\ (req[p].op # "search_lists" \/ req[p].uid = NONE
                     \/ req[p].email = NONE) => UNCHANGED users
              /\ (users' # users) =>
                    \/ /\ \A u \in users : /\ u.firebase_uid # req[p].uid
                                           /\ u.email # req[p].email
                       /\ \E v \in users' \ users :
                             /\ users' = users \cup {v}
                             /\ v.firebase_uid = req[p].uid
                             /\ v.email = req[p].email
                             /\ \A u \in users : u.id # v.id
                    \/ \E u \in users :
                          /\ u.email = req[p].email
                          /\ u.firebase_uid # req[p].uid
                          /\ users' = (users \ {u}) \cup
                                        {[u EXCEPT !.firebase_uid = req[p].uid]}]_vars

\* a search by a caller the store did not know has been answered, and the
\* store now holds a row for that caller
C39_Witness ==
    \E p \in SeqProcs :
        /\ pc[p] = "done" /\ req[p].op = "search_lists" /\ out[p].status = 200
        /\ req[p].uid = "f3"
        /\ \E u \in users : u.firebase_uid = "f3" /\ u.id = loc[p].user

====
